---- MODULE Spec2Model ----
(***************************************************************************)
(* State-machine model of the local_sent transfer engine                   *)
(* (src/src/transfer.ts): the receiver's per-connection handler            *)
(* handleIncomingSocket with its pairing state and output directory, the   *)
(* TTL rotation timer of startReceiver, and the batch sender               *)
(* sendEntries/sendFile.                                                   *)
(*                                                                         *)
(* One action is one run of the event loop: everything a handler does      *)
(* between two awaits (or one callback).                                   *)
(***************************************************************************)
EXTENDS Integers, Sequences, FiniteSets, TLC

\* ------------------------------------------------------------------ bounds

MaxSessions == 2      \* receiver connections per run
MaxSize == 2          \* largest declared fileSize
MaxByte == 2          \* payload bytes are 1..MaxByte
MaxTime == 3          \* clock ticks
MaxEntries == 2       \* entries of a sender batch
\* MAX_DUPLICATE_SUFFIX_ATTEMPTS of transfer.ts:681 (10_000), scaled down
MaxDuplicate == 2
MaxSeeded == 2        \* files in the output directory when the receiver starts
\* HEADER_MAX_BYTES (64 * 1024), scaled down; no "data" event brings more
HeaderMaxBytes == 3
\* The service events and datagrams one discoverDevices call handles.
MaxHeard == 2
\* The addresses one mDNS service announces.
MaxAddresses == 2
\* The network interfaces of the discovering system.
MaxInterfaces == 2
\* pairCodeTtlSeconds * 1000 (transfer.ts:240), in clock ticks
TtlMs == 1
\* the rotation loops "for (let i = 0; i < 5 && nextCode === oldCode..."
RegenerateAttempts == 5

Sessions == 1..MaxSessions
Bytes == 1..MaxByte
NoCode == "none"                  \* null / undefined pair code
Codes == {"111111", "222222", "333333"}

Min(a, b) == IF a < b THEN a ELSE b
Max(a, b) == IF a > b THEN a ELSE b
Prefix(q, n) == SubSeq(q, 1, Min(Len(q), n))
SeqsUpTo(S, n) == UNION {[1..k -> S] : k \in 0..n}

\* file names: entry i of a batch is sent as EntryPaths[i]
EntryPaths == <<"x.ext", "y.ext", "z.ext">>

\* A path string is a sequence of tokens: the separators "/" and "\\", and
\* the names between them. A resolved path is the sequence of the names below
\* the output directory.
\* input.replace(/\\/g, "/")
replaceBackslashes(input) == [i \in DOMAIN input |-> IF input[i] = "\\" THEN "/" ELSE input[i]]
isAbsolute(unixPath) == Len(unixPath) > 0 /\ unixPath[1] = "/"
\* string.split("/") without the empty segments
split(unixPath) == SelectSeq(unixPath, LAMBDA token : token # "/")
\* segments.join("/")
join(segments) ==
    [i \in 1..(2 * Len(segments) - 1) |-> IF i % 2 = 1 THEN segments[(i + 1) \div 2] ELSE "/"]

\* posix.normalize on the segments of a path: "." is dropped, ".." takes the
\* segment before it away, is dropped at the root of an absolute path and is
\* kept at the head of a relative one.
RECURSIVE posixNormalize(_, _, _)
posixNormalize(segments, absolute, res) ==
    IF segments = <<>> THEN res
    ELSE LET segment == Head(segments)
             rest == Tail(segments)
         IN IF segment = "." THEN posixNormalize(rest, absolute, res)
            ELSE IF segment = ".."
            THEN IF Len(res) > 0 /\ res[Len(res)] # ".."
                 THEN posixNormalize(rest, absolute, SubSeq(res, 1, Len(res) - 1))
                 ELSE IF absolute THEN posixNormalize(rest, absolute, res)
                 ELSE posixNormalize(rest, absolute, Append(res, ".."))
            ELSE posixNormalize(rest, absolute, Append(res, segment))

\* What a function that may throw gives back.
Returned(value) == [ok |-> TRUE, value |-> value, message |-> ""]
Thrown(message) == [ok |-> FALSE, value |-> <<>>, message |-> message]

\* normalizeTransferPath letting every normalized path through.
normalizeTransferPathUnchecked(input) ==
    Returned(join(posixNormalize(split(replaceBackslashes(input)),
                                 isAbsolute(replaceBackslashes(input)), <<>>)))

\* normalizeTransferPath (utils.ts:58-67): the leading slashes of the
\* normalized path are stripped; what then is empty or leads upwards throws.
normalizeTransferPath(input) ==
    LET unixPath == replaceBackslashes(input)
        normalized == posixNormalize(split(unixPath), isAbsolute(unixPath), <<>>)
    IN IF \/ normalized = <<>>
          \/ normalized = <<"..">>
          \/ normalized[1] = ".."
          \/ \E i \in 2..Len(normalized) : normalized[i] = ".."
       THEN Thrown("invalid relative path")
       ELSE Returned(join(normalized))

\* The names whose text starts with two dots.
StartsWithDotDot(name) == name \in {"..", "..x"}

\* ------------------------------------------------------------ pure helpers

\* SHA-256 as an ideal (collision-free) digest of a byte sequence; the
\* leading 0 keeps a digest apart from the bytes it was computed from, and
\* <<>> stands for "no digest".
sha256(b) == <<0>> \o b
NoSha == <<>>

\* The streaming hasher: its state is the bytes fed so far.
hasherUpdate(h, chunk) == h \o chunk
hasherDigest(h) == sha256(h)

\* A path of the output directory: resolveOutputPath(outputDir, rel), its
\* duplicate index, and the temp tag ("" for a final path).
NoTag == <<>>
Path(rel, idx, tag) == [rel |-> rel, idx |-> idx, tag |-> tag]
NoPath == [rel |-> <<>>, idx |-> 0, tag |-> NoTag]

\* resolveOutputPath (utils.ts:69-79): the normalized path below the output
\* directory; relative(root, target) starting with ".." throws.
resolveOutputPath(relativePath) ==
    LET normalized == normalizeTransferPath(relativePath)
    IN IF ~normalized.ok THEN normalized
       ELSE IF StartsWithDotDot(split(normalized.value)[1])
       THEN Thrown("path escapes output directory")
       ELSE Returned(Path(split(normalized.value), 0, NoTag))

duplicatePathWithIndex(basePath, index) ==
    IF index <= 0 THEN basePath ELSE [basePath EXCEPT !.idx = basePath.idx + index]

\* The characters a header's sha256 field may hold besides those of a digest
\* (line 535 only asks for a non-empty string): "/", ".." and a letter.
SlashChar == -1
DotDotChars == -2
LetterChar == -3

\* expectedSha256.slice(0, 16).toLowerCase(): within the model's sha256
\* strings the 16-character prefix is the whole string.
ShaTag(expectedSha256) == expectedSha256

buildReceiveTempPath(finalPath, expectedSha256) ==
    [finalPath EXCEPT !.tag = ShaTag(expectedSha256)]

\* ---------------------------------------------------------------- messages

Header(rel, size, sha, code) ==
    [type |-> "header", valid |-> TRUE, relativePath |-> rel, fileSize |-> size,
     sha256 |-> sha, pairCode |-> code]
NoHeader ==
    [type |-> "", valid |-> FALSE, relativePath |-> <<>>, fileSize |-> 0,
     sha256 |-> NoSha, pairCode |-> NoCode]

Frame(type, ok, offset, message, sha, receivedBytes, savedPath, resumedFrom, nextPairCode) ==
    [type |-> type, ok |-> ok, offset |-> offset, message |-> message, sha256 |-> sha,
     receivedBytes |-> receivedBytes, savedPath |-> savedPath,
     resumedFrom |-> resumedFrom, nextPairCode |-> nextPairCode]

ReadyMessage(ok, offset, message, savedPath) ==
    Frame("ready", ok, offset, message, NoSha, -1, savedPath, -1, NoCode)
AckFailMessage(message) ==
    Frame("ack", FALSE, -1, message, NoSha, -1, NoPath, -1, NoCode)
AckOkMessage(digest, received, savedPath, resumedFrom, nextPairCode) ==
    Frame("ack", TRUE, -1, "", digest, received, savedPath, resumedFrom, nextPairCode)

\* ------------------------------------------------------------------- state

VARIABLES
    discovery,      \* the discoverDevices call in progress: what each transport has heard, the result
    server,         \* the listening server of startReceiver and the progress of its stop handle
    options,        \* ListenOptions of startReceiver (fixed per run)
    pairingState,   \* PairingState: currentCode, previousCode, previousCodeValidUntilMs, activeTransfers
    now,            \* Date.now() in clock ticks
    ttlTimerDue,    \* when the setInterval of startReceiver is next due; -1: no timer
    notified,       \* the onPairCodeChange calls so far: how many, and the last one's arguments
    lastTtl,        \* history: the latest TTL rotation (the code it retired, when, its grace
                    \* window's end, the code retired by the one before) and whether no
                    \* per-transfer rotation followed it
    dir,            \* output directory: path -> file object (0: no such file)
    files,          \* file object -> bytes
    sess,           \* receiver sessions (one handleIncomingSocket each)
    snd,            \* the batch sender (sendEntries)
    lan             \* what the other peers of the network may send (fixed per run)

vars == <<discovery, server, options, pairingState, now, ttlTimerDue, notified, lastTtl, dir, files, sess, snd, lan>>

\* The server after server.listen (line 300); the stop handle not yet called.
\*   stop  where the stop handle is: "none", "publish" (awaits stopPublish),
\*         "close" (awaits closeServer), "done"
\*   late  history: the connections accepted since the stop handle was called
\*   pc    where the startReceiver call is: "start" (called), "listen" (awaits
\*         the listen promise), "returned", "failed" (it threw error)
\*   published  publishService was called and its stop function was not
Listening == [listening |-> TRUE, stop |-> "none", late |-> 0,
              pc |-> "returned", published |-> TRUE, error |-> ""]
\* startReceiver was called and its mkdir of the output directory resolved.
NotStarted == [listening |-> FALSE, stop |-> "none", late |-> 0,
               pc |-> "start", published |-> FALSE, error |-> ""]

\* No discoverDevices call yet.
\*   mdns, udp  the devices Map of discoverViaMdns and of discoverViaUdp, in
\*              insertion order, each entry with its key
\*   heard      how many service events and datagrams the call has handled
\*   locals     the addresses localIpv4Set kept
\*   returned   the resolved value of discoverDevices
NoDiscovery == [pc |-> "idle", mdns |-> <<>>, udp |-> <<>>, mdnsDone |-> FALSE, udpDone |-> FALSE,
                heard |-> 0, locals |-> {}, returned |-> <<>>]
\* The connection listener (lines 282-296) takes a connection.
Accepts(srv) == [srv EXCEPT !.late = IF srv.stop = "none" THEN 0 ELSE @ + 1]

\* ----------------------------------------------------------------- pairing

\* One run of a rotation's generator loop: draws[1] is the first
\* generatePairCode(), draws[i + 2] the regeneration of round i.
RECURSIVE Regenerate(_, _, _, _)
Regenerate(draws, oldCode, i, nextCode) ==
    IF i < RegenerateAttempts /\ nextCode = oldCode
    THEN Regenerate(draws, oldCode, i + 1, draws[i + 2])
    ELSE nextCode

\* What the generator may return during one rotation from oldCode: k times
\* oldCode, then another code (the draws after the first code that differs
\* are never made); k is none, one, all but the last, or all of the draws.
GeneratorDraws(oldCode) ==
    {[i \in 1..(RegenerateAttempts + 1) |-> IF i <= k THEN oldCode ELSE c] :
        k \in {0, 1, RegenerateAttempts, RegenerateAttempts + 1}, c \in Codes \ {oldCode}}

\* rotatePairCode keeping the retired code for a grace window half as long.
rotatePairCodeShortGrace(ps, draws, reason, ttlOn, at) ==
    [ps EXCEPT !.currentCode = Regenerate(draws, ps.currentCode, 0, draws[1]),
               !.previousCode = ps.currentCode,
               !.previousCodeValidUntilMs = at + (TtlMs \div 2)]

\* rotatePairCode("ttl") of startReceiver: the pairing state after it.
rotatePairCode(ps, draws, reason, ttlOn, at) ==
    LET oldCode == ps.currentCode
        nextCode == Regenerate(draws, oldCode, 0, draws[1])
    IN IF reason = "ttl" /\ ttlOn
       THEN [ps EXCEPT !.currentCode = nextCode, !.previousCode = oldCode,
                       !.previousCodeValidUntilMs = at + TtlMs]
       ELSE [ps EXCEPT !.currentCode = nextCode, !.previousCode = NoCode,
                       !.previousCodeValidUntilMs = 0]

rotatePairCodeOnce(ps, draws) ==
    [ps EXCEPT !.currentCode = Regenerate(draws, ps.currentCode, 0, draws[1]),
               !.previousCode = NoCode,
               !.previousCodeValidUntilMs = 0]

\* isPairCodeAccepted with the grace window's last instant excluded.
isPairCodeAcceptedBefore(ps, incomingCode, at) ==
    \/ ps.currentCode = NoCode
    \/ incomingCode = ps.currentCode
    \/ ps.previousCode # NoCode /\ incomingCode = ps.previousCode /\ at < ps.previousCodeValidUntilMs

isPairCodeAccepted(ps, incomingCode, at) ==
    IF ps.currentCode = NoCode THEN TRUE
    ELSE IF incomingCode = ps.currentCode THEN TRUE
    ELSE IF /\ ps.previousCode # NoCode
            /\ incomingCode = ps.previousCode
            /\ at <= ps.previousCodeValidUntilMs THEN TRUE
    ELSE FALSE

\* ------------------------------------------------------------- file system

FileIds == 1..(MaxSessions + MaxSeeded)
\* What the directory holds at the path of a directory.
Folder == -1
Tags == {ShaTag(sha256(c)) : c \in SeqsUpTo(Bytes, MaxSize)}

\* The places of the model: the files and temp files of the entry names, a
\* file in a directory, that directory, a file beside the output directory,
\* and nowhere (NoPath, which never holds anything).
NestedPath == <<"x.ext.", "a">>
OutsidePath == <<"..", "e.local-sent.part">>
RelPaths == {<<EntryPaths[i]>> : i \in 1..Min(MaxEntries, 3)}
\* selectReceivePaths and promoteReceivedFile each add less than MaxDuplicate
\* to the index.
Indexes == 0..(2 * MaxDuplicate - 2)
AllPaths ==
    {Path(r, i, t) : r \in RelPaths, i \in Indexes, t \in Tags \cup {NoTag}}
    \cup {Path(NestedPath, i, t) : i \in Indexes, t \in {NoTag, ShaTag(sha256(<<1>>))}}
    \cup {Path(SubSeq(NestedPath, 1, n), 0, NoTag) : n \in 1..(Len(NestedPath) - 1)}
    \cup {Path(OutsidePath, 0, NoTag), NoPath}

pathExists(d, p) == d[p] # 0

\* The parts of a tag between its slashes.
RECURSIVE tagParts(_, _, _)
tagParts(tag, part, parts) ==
    IF tag = <<>> THEN Append(parts, part)
    ELSE IF Head(tag) = SlashChar THEN tagParts(Tail(tag), <<>>, Append(parts, part))
    ELSE tagParts(Tail(tag), Append(part, Head(tag)), parts)

\* name + "." and letter + ".local-sent.part" for the names of the model
\* ("" for a name the model's directory cannot hold).
WithDot(name) == IF name = "x.ext" THEN "x.ext." ELSE ""
PartName(part) == IF part = <<LetterChar>> THEN "e.local-sent.part" ELSE ""

\* ".." from a directory below, at or above the output directory.
Parent(cwd) ==
    IF cwd = <<>> \/ cwd[Len(cwd)] = ".." THEN Append(cwd, "..")
    ELSE SubSeq(cwd, 1, Len(cwd) - 1)

\* The walk of the operating system through the middle parts of a tag.
RECURSIVE Walk(_, _)
Walk(cwd, parts) ==
    IF Len(parts) <= 1 THEN Returned(Append(cwd, PartName(parts[1])))
    ELSE IF Head(parts) = <<>> THEN Walk(cwd, Tail(parts))
    ELSE IF Head(parts) = <<DotDotChars>> THEN Walk(Parent(cwd), Tail(parts))
    ELSE Thrown("ENOENT")

\* Where the operating system finds the file a path string names. The string
\* of a temp path is finalPath + "." + tag + TEMP_SUFFIX (line 708): a tag
\* with slashes makes finalPath + "." + its first part a directory name,
\* which must exist, and the parts after it are walked from there.
Resolved(d, p) ==
    LET parts == tagParts(p.tag, <<>>, <<>>)
        first == Append(SubSeq(p.rel, 1, Len(p.rel) - 1), WithDot(p.rel[Len(p.rel)]))
        walked == Walk(first, Tail(parts))
    IN IF Len(parts) = 1 THEN p
       ELSE IF p.idx # 0 \/ parts[1] # <<>> \/ Path(first, 0, NoTag) \notin AllPaths THEN NoPath
       ELSE IF d[Path(first, 0, NoTag)] # Folder THEN NoPath
       ELSE IF ~walked.ok \/ Path(walked.value, 0, NoTag) \notin AllPaths THEN NoPath
       ELSE Path(walked.value, 0, NoTag)

\* The file objects still referenced by the directory or by an open stream.
Referenced(d, ss) == {d[p] : p \in AllPaths} \cup {ss[s].fd : s \in Sessions}
FreeIds(d, ss) == FileIds \ Referenced(d, ss)
\* Unreferenced file objects hold nothing.
Collect(d, ss, fl) == [i \in FileIds |-> IF i \in Referenced(d, ss) THEN fl[i] ELSE <<>>]

\* A write that ignores the stream's start position.
WriteAtStart(content, pos, chunk) ==
    [k \in 1..Max(Len(content), Len(chunk)) |-> IF k <= Len(chunk) THEN chunk[k] ELSE content[k]]

\* pwrite of chunk at position pos (a gap reads as zero bytes).
WriteAt(content, pos, chunk) ==
    LET n == Max(Len(content), pos + Len(chunk))
    IN [k \in 1..n |->
          IF k > pos /\ k <= pos + Len(chunk) THEN chunk[k - pos]
          ELSE IF k <= Len(content) THEN content[k] ELSE 0]

\* ---------------------------------------------------------------- sessions

\* The locals of one handleIncomingSocket call, its SocketReader and socket.
\*   pc        where the handler is suspended (its await)
\*   line      SocketReader.buffer: the control line at its head, if one arrived
\*   buffer    SocketReader.buffer: the bytes after that line
\*   out       the frames the receiver handed to the socket, in order
\*   writable  socket.writable; destroyed: socket.destroyed
\*   stream    fileStream: "none" (null), "open", "bad" (open failed), "closed", "destroyed"
\*   fd        the file object the open stream writes to (0: none)
\*   lineBytes the bytes received for the control line so far, its newline included
\*   asked     history: how often the confirmation hook was called
\*   refused   history: the decision of the confirmation hook, if it refused
\*   found     history, until the handler returns: the bytes of the temp file
\*             when ready{ok:true} was written (<<bytes>>, or <<>> without a file)
\*   admitted, admittedWith, promoted, rotated: history of what the session did
NewSession ==
    [pc |-> "idle", peer |-> "none", header |-> NoHeader,
     hasLine |-> FALSE, line |-> NoHeader,
     buffer |-> <<>>, ended |-> FALSE, error |-> FALSE,
     writable |-> TRUE, destroyed |-> FALSE, out |-> <<>>,
     phase |-> "before-ready", failed |-> FALSE, message |-> "",
     resumedFrom |-> 0, received |-> 0, required |-> NoCode,
     hasher |-> <<>>, targetPath |-> NoPath, tempPath |-> NoPath, index |-> 0,
     statSize |-> 0, stream |-> "none", fd |-> 0,
     peerHeader |-> FALSE, peerBytes |-> 0, peerEnded |-> FALSE, asked |-> 0, found |-> <<>>,
     lineBytes |-> 0, inbound |-> <<>>, arrived |-> 0, sentHeader |-> NoHeader,
     refused |-> <<>>,
     admitted |-> FALSE, admittedWith |-> NoCode, promoted |-> NoPath, rotated |-> 0]

\* fail() answering with an ack whatever the phase.
FailureFrameAlwaysAck(r, message) == AckFailMessage(message)

\* fail(), lines 498-525: the failure frame, chosen by the phase, then the
\* write side is ended and the socket destroyed.
FailureFrame(r, message) ==
    IF r.phase = "before-ready" THEN ReadyMessage(FALSE, 0, message, NoPath)
    ELSE AckFailMessage(message)

EmitFailure(r, message) ==
    IF r.writable
    THEN [r EXCEPT !.out = Append(@, FailureFrame(r, message)),
                   !.writable = FALSE, !.destroyed = TRUE, !.ended = TRUE]
    ELSE [r EXCEPT !.destroyed = TRUE, !.ended = TRUE]

\* fail() destroying the stream without raising its failed flag.
BeginFailUnmarked(r, message) ==
    [r EXCEPT !.message = message,
              !.stream = IF @ \in {"open", "bad"} THEN "destroyed" ELSE @,
              !.fd = 0]

\* fail(), lines 480-488: the guard and the stream's destruction.
BeginFail(r, message) ==
    [r EXCEPT !.failed = TRUE, !.message = message,
              !.stream = IF @ \in {"open", "bad"} THEN "destroyed" ELSE @,
              !.fd = 0]

\* fail(message) without cleanup, run to its end.
fail(r, message) ==
    IF r.failed THEN r ELSE EmitFailure(BeginFail(r, message), message)

\* The finally block (lines 663-666), after which the handler is over.
Finally(r) ==
    [r EXCEPT !.pc = "closed", !.hasLine = FALSE, !.line = NoHeader, !.buffer = <<>>,
              !.statSize = 0, !.index = 0, !.found = <<>>,
              !.peerHeader = TRUE, !.peerBytes = 0, !.peerEnded = TRUE]
\* The finally block forgetting every active transfer.
ReleaseAll(ps) == [ps EXCEPT !.activeTransfers = 0]
Release(ps) == [ps EXCEPT !.activeTransfers = Max(0, @ - 1)]

\* The handler fails with message and returns (or throws into its catch).
FailAndReturn(s, r, message) ==
    /\ sess' = [sess EXCEPT ![s] = Finally(fail(r, message))]
    /\ pairingState' = Release(pairingState)
    /\ files' = Collect(dir, sess', files)
    /\ UNCHANGED <<server, discovery, options, now, ttlTimerDue, notified, lastTtl, dir, snd, lan>>

\* The handler moves on without touching the directory or the pairing state.
Step(s, r) ==
    /\ sess' = [sess EXCEPT ![s] = r]
    /\ UNCHANGED <<server, discovery, options, pairingState, now, ttlTimerDue, notified, lastTtl, dir, files, snd, lan>>

\* ------------------------------------------------------------- other peers

\* A peer's TCP connection is accepted: the connection listener of
\* startReceiver runs handleIncomingSocket up to its first await.
Accepted(r, kind) == [r EXCEPT !.pc = "header", !.peer = kind]

PeerConnect(s) ==
    /\ sess[s].pc = "idle"
    /\ \A q \in Sessions : q < s => sess[q].pc # "idle"
    /\ s <= lan.connections
    /\ lan.concurrent \/ \A q \in Sessions : sess[q].pc \in {"idle", "closed"}
    /\ sess' = [sess EXCEPT ![s] = Accepted(@, "peer")]
    /\ pairingState' = [pairingState EXCEPT !.activeTransfers = @ + 1]
    /\ server.listening
    /\ server' = Accepts(server)
    /\ UNCHANGED <<discovery, options, now, ttlTimerDue, notified, lastTtl, dir, files, snd, lan>>

\* The header lines a peer may send: well-formed ones, one of another type
\* and one with invalid fields.
PeerHeaders ==
    {Header(rel, size, sha, code) :
        rel \in lan.paths, size \in lan.sizes, sha \in lan.shas, code \in lan.codes}
    \cup (IF lan.malformed
          THEN {[Header(<<EntryPaths[1]>>, 0, NoSha, NoCode) EXCEPT !.type = "ready"],
                [Header(<<EntryPaths[1]>>, 0, NoSha, NoCode) EXCEPT !.valid = FALSE]}
          ELSE {})

\* SocketReader.onData: the peer's bytes are appended to the buffer.
\* SocketReader.onData keeping only the latest chunk.
onDataKeepingLast(r, chunk) == [r EXCEPT !.buffer = chunk]
onData(r, chunk) == [r EXCEPT !.buffer = @ \o chunk]

PeerSendHeader(s) ==
    /\ sess[s].peer = "peer"
    /\ ~sess[s].peerHeader /\ ~sess[s].peerEnded /\ ~sess[s].destroyed
    /\ sess[s].pc # "closed"
    /\ \E h \in PeerHeaders :
          Step(s, [sess[s] EXCEPT !.hasLine = TRUE, !.line = h, !.peerHeader = TRUE])

\* readLineMessage, lines 146-148, on a buffer without a newline.
TooLarge(length) == length > HeaderMaxBytes

\* A "data" event with n bytes of the header line and no newline, and the
\* reader's loop that it wakes (lines 133-153): the buffer is too large, or
\* the reader waits again.
PeerSendPart(s) ==
    LET r == sess[s]
    IN /\ r.peer = "peer"
       /\ ~r.peerHeader /\ ~r.peerEnded /\ ~r.destroyed
       /\ r.pc = "header"
       /\ \E n \in 1..HeaderMaxBytes :
             LET grown == [r EXCEPT !.lineBytes = @ + n]
             IN IF TooLarge(grown.lineBytes)
                THEN FailAndReturn(s, grown, "header too large")
                ELSE Step(s, grown)

\* A "data" event with the last n bytes of the header line and its newline:
\* the reader will find the newline (lines 135-136) whatever the length.
PeerSendLine(s) ==
    /\ sess[s].peer = "peer"
    /\ ~sess[s].peerHeader /\ ~sess[s].peerEnded /\ ~sess[s].destroyed
    /\ sess[s].pc = "header"
    /\ \E n \in 0..(HeaderMaxBytes - 1) : \E h \in PeerHeaders :
          Step(s, [sess[s] EXCEPT !.hasLine = TRUE, !.line = h, !.peerHeader = TRUE,
                                  !.lineBytes = @ + n + 1])

PeerSendByte(s) ==
    /\ sess[s].peer = "peer"
    /\ sess[s].peerHeader /\ ~sess[s].peerEnded /\ ~sess[s].destroyed
    /\ sess[s].pc # "closed"
    /\ sess[s].peerBytes <= MaxSize
    /\ \E b \in lan.bytes :
          Step(s, [onData(sess[s], <<b>>) EXCEPT !.peerBytes = @ + 1])

\* SocketReader.onEnd: the peer half-closed.
onEnd(r) == [r EXCEPT !.ended = TRUE]

\* A peer whose whole stream (header line, payload, FIN) has arrived by the
\* time the handler first runs again after the accept.
PeerBurst(s) ==
    /\ sess[s].pc = "idle"
    /\ \A q \in Sessions : q < s => sess[q].pc # "idle"
    /\ s <= lan.connections
    /\ lan.concurrent \/ \A q \in Sessions : sess[q].pc \in {"idle", "closed"}
    /\ \E h \in PeerHeaders : \E payload \in lan.payloads :
          sess' = [sess EXCEPT ![s] =
                     [onEnd(onData(Accepted(@, "peer"), payload))
                        EXCEPT !.hasLine = TRUE, !.line = h,
                               !.peerHeader = TRUE, !.peerEnded = TRUE]]
    /\ pairingState' = [pairingState EXCEPT !.activeTransfers = @ + 1]
    /\ server.listening
    /\ server' = Accepts(server)
    /\ UNCHANGED <<discovery, options, now, ttlTimerDue, notified, lastTtl, dir, files, snd, lan>>

PeerEnd(s) ==
    /\ sess[s].peer = "peer"
    /\ ~sess[s].peerEnded /\ ~sess[s].destroyed
    /\ sess[s].pc # "closed"
    /\ Step(s, [onEnd(sess[s]) EXCEPT !.peerEnded = TRUE])

\* The connection is reset: SocketReader.onError and onClose, and the
\* socket is no longer writable.
onError(r) == [r EXCEPT !.error = TRUE, !.ended = TRUE, !.writable = FALSE, !.destroyed = TRUE]

PeerReset(s) ==
    /\ sess[s].peer = "peer"
    /\ ~sess[s].destroyed
    /\ sess[s].pc \notin {"idle", "closed"}
    /\ Step(s, [onError(sess[s]) EXCEPT !.peerEnded = TRUE])

\* The newline byte that ends a control line (0x0a, line 135).
LineFeed == 10
\* The bytes of an encoded header, without its newline.
HeaderText == <<123, 125>>

\* Buffer.indexOf: the 0-based position of the first occurrence, or -1.
indexOf(buffer, byte) ==
    IF \E i \in 1..Len(buffer) : buffer[i] = byte
    THEN (CHOOSE i \in 1..Len(buffer) :
             buffer[i] = byte /\ \A j \in 1..(i - 1) : buffer[j] # byte) - 1
    ELSE 0 - 1
\* Buffer.subarray(start), 0-based.
subarray(buffer, start) == SubSeq(buffer, start + 1, Len(buffer))

\* A peer's connection is accepted; the bytes it is going to send are an
\* encoded header, a newline and a payload of the announced size (of the
\* announced digest or not, with newline bytes or without), or a header that
\* never ends.
RawStreams ==
    {[header |-> Header(<<EntryPaths[1]>>, Len(payload), sha256(<<1>>), NoCode),
      bytes |-> HeaderText \o <<LineFeed>> \o payload] :
        payload \in SeqsUpTo({1, LineFeed}, MaxSize)}
    \cup {[header |-> NoHeader, bytes |-> HeaderText]}

PeerOpens(s) ==
    /\ sess[s].pc = "idle"
    /\ \A q \in Sessions : q < s => sess[q].pc # "idle"
    /\ s <= lan.connections
    /\ lan.concurrent \/ \A q \in Sessions : sess[q].pc \in {"idle", "closed"}
    /\ \E stream \in RawStreams :
          sess' = [sess EXCEPT ![s] = [Accepted(@, "peer") EXCEPT !.inbound = stream.bytes,
                                                                !.sentHeader = stream.header]]
    /\ pairingState' = [pairingState EXCEPT !.activeTransfers = @ + 1]
    /\ server.listening
    /\ server' = Accepts(server)
    /\ UNCHANGED <<discovery, options, now, ttlTimerDue, notified, lastTtl, dir, files, snd, lan>>

\* decodeJsonLine of a line of the peer of session r.
decodeJsonLine(r, line) == IF line = HeaderText THEN r.sentHeader ELSE NoHeader

\* A "data" event with the next bytes of the peer's stream, in a chunk of
\* any size (onData, lines 174-178), and, when the handler waits in
\* readLineMessage, the round of its loop that the event wakes (lines
\* 133-153): the line up to the first newline is decoded and taken off the
\* buffer, or the buffer is too large, or the reader waits again.
PeerSendData(s) ==
    LET r == sess[s]
    IN /\ r.peer = "peer"
       /\ r.arrived < Len(r.inbound)
       /\ ~r.peerEnded /\ ~r.destroyed
       /\ r.pc \notin {"idle", "closed"}
       /\ \E n \in 1..(Len(r.inbound) - r.arrived) :
             LET chunk == SubSeq(r.inbound, r.arrived + 1, r.arrived + n)
                 got == [onData(r, chunk) EXCEPT !.arrived = @ + n]
                 newlineIndex == indexOf(got.buffer, LineFeed)
                 line == SubSeq(got.buffer, 1, newlineIndex)
             IN IF r.pc # "header" \/ r.hasLine THEN Step(s, got)
                ELSE IF newlineIndex >= 0
                THEN IF decodeJsonLine(r, line) = NoHeader
                     THEN FailAndReturn(s, [got EXCEPT !.buffer = subarray(@, newlineIndex + 1)],
                                        "invalid header")
                     ELSE Step(s, [got EXCEPT !.buffer = subarray(@, newlineIndex + 1),
                                              !.hasLine = TRUE,
                                              !.line = decodeJsonLine(r, line),
                                              !.peerHeader = TRUE])
                ELSE IF TooLarge(Len(got.buffer)) THEN FailAndReturn(s, got, "header too large")
                ELSE Step(s, got)

\* ------------------------------------------------- handleIncomingSocket

\* Lines 629-634 once the payload is complete and the stream closed: the
\* digest is compared; a mismatch starts fail("sha256 mismatch", true), which
\* awaits the removal of the temp file; a match starts promoteReceivedFile.
Verify(r) ==
    IF hasherDigest(r.hasher) # r.header.sha256
    THEN [BeginFail(r, "sha256 mismatch") EXCEPT !.pc = "rm"]
    ELSE [r EXCEPT !.pc = "promote", !.index = 0]

\* Lines 598-627 with the wait for the stream's end left out.
LoopWithoutFlush(r) ==
    IF r.received < r.header.fileSize THEN [r EXCEPT !.pc = "recv"] ELSE Verify(r)

\* Lines 598-627 at the loop's head: another chunk is awaited, or the loop is
\* over and the stream is ended and awaited, or there was no stream.
Loop(r) ==
    IF r.received < r.header.fileSize THEN [r EXCEPT !.pc = "recv"]
    ELSE IF r.stream # "none" THEN [r EXCEPT !.pc = "flush"]
    ELSE Verify(r)

\* socket.write(frame): nothing leaves a destroyed socket.
Write(r, frame) == IF r.writable THEN [r EXCEPT !.out = Append(@, frame)] ELSE r

\* Lines 578-596 once decideResumeOffset returned offset: the stream is
\* created (flags "w" truncates or creates, "r+" needs the file), ready is
\* written and the receive loop is entered.
OpenedAt(r, offset) ==
    [r EXCEPT !.resumedFrom = offset, !.received = offset, !.statSize = 0]

Ready(r) ==
    Loop([Write(r, ReadyMessage(TRUE, r.resumedFrom, "", r.targetPath))
            EXCEPT !.phase = "receiving"])

Proceed(s, r0, offset) ==
    LET at == Resolved(dir, r0.tempPath)
        exists == dir[at] > 0
        r == [OpenedAt(r0, offset) EXCEPT !.found = IF exists THEN <<files[dir[at]]>> ELSE <<>>]
    IN IF offset >= r.header.fileSize
       THEN Step(s, Ready(r))
       ELSE IF offset > 0
       THEN Step(s, Ready([r EXCEPT !.stream = IF exists THEN "open" ELSE "bad",
                                    !.fd = IF exists THEN dir[at] ELSE 0]))
       ELSE IF exists
       THEN /\ sess' = [sess EXCEPT ![s] = Ready([r EXCEPT !.stream = "open", !.fd = dir[at]])]
            /\ files' = [files EXCEPT ![dir[at]] = <<>>]
            /\ UNCHANGED <<server, discovery, options, pairingState, now, ttlTimerDue, notified, lastTtl, dir, snd, lan>>
       ELSE IF at = NoPath \/ dir[at] = Folder
       THEN Step(s, Ready([r EXCEPT !.stream = "bad"]))
       ELSE /\ FreeIds(dir, sess) # {}
            /\ LET id == CHOOSE i \in FreeIds(dir, sess) : \A j \in FreeIds(dir, sess) : i <= j
               IN /\ sess' = [sess EXCEPT ![s] = Ready([r EXCEPT !.stream = "open", !.fd = id])]
                  /\ dir' = [dir EXCEPT ![at] = id]
            /\ UNCHANGED <<server, discovery, options, pairingState, now, ttlTimerDue, notified, lastTtl, files, snd, lan>>

\* Lines 529-551: the header line arrives (or the peer closed before it), its
\* fields are checked and the pair code is admitted or not; selectReceivePaths
\* then resolves the relative path, which may throw, and starts with its
\* first pathExists.
RecvHeader(s) ==
    LET r == sess[s]
        header == r.line
        taken == [r EXCEPT !.hasLine = FALSE, !.line = NoHeader, !.header = header]
    IN /\ r.pc = "header"
       /\ IF r.error THEN FailAndReturn(s, r, "socket error")
          ELSE IF r.hasLine
          THEN IF header.type # "header"
               THEN FailAndReturn(s, taken, "protocol error: expected header")
               ELSE IF ~header.valid
               THEN FailAndReturn(s, taken, "invalid header fields")
               ELSE IF ~isPairCodeAccepted(pairingState, header.pairCode, now)
               THEN FailAndReturn(s, [taken EXCEPT !.required = pairingState.currentCode],
                                  "pair code mismatch")
               ELSE IF ~resolveOutputPath(header.relativePath).ok
               THEN FailAndReturn(s, [taken EXCEPT !.required = pairingState.currentCode,
                                                   !.admitted = TRUE,
                                                   !.admittedWith = header.pairCode],
                                  resolveOutputPath(header.relativePath).message)
               ELSE Step(s, [taken EXCEPT !.required = pairingState.currentCode,
                                          !.admitted = TRUE,
                                          !.admittedWith = header.pairCode,
                                          !.index = 0,
                                          !.pc = "selectTemp"])
          ELSE /\ r.ended
               /\ FailAndReturn(s, r, "connection closed before header")

\* selectReceivePaths, lines 719-736: one pathExists per step.
Candidate(r) == duplicatePathWithIndex(resolveOutputPath(r.header.relativePath).value, r.index)

Selected(r) ==
    [r EXCEPT !.targetPath = Candidate(r),
              !.tempPath = buildReceiveTempPath(Candidate(r), r.header.sha256),
              !.index = 0,
              !.pc = "mkdir"]

SelectTemp(s) ==
    LET r == sess[s]
    IN /\ r.pc = "selectTemp"
       /\ IF pathExists(dir, Resolved(dir, buildReceiveTempPath(Candidate(r), r.header.sha256)))
          THEN Step(s, Selected(r))
          ELSE Step(s, [r EXCEPT !.pc = "selectFinal"])

\* selectReceivePaths taking the candidate whether or not it exists.
SelectFinalTakesFirst(s) ==
    /\ sess[s].pc = "selectFinal"
    /\ Step(s, Selected(sess[s]))

SelectFinal(s) ==
    LET r == sess[s]
    IN /\ r.pc = "selectFinal"
       /\ IF ~pathExists(dir, Candidate(r))
          THEN Step(s, Selected(r))
          ELSE IF r.index + 1 < MaxDuplicate
          THEN Step(s, [r EXCEPT !.index = @ + 1, !.pc = "selectTemp"])
          ELSE FailAndReturn(s, r, "failed to allocate receive target path")

\* Line 553, then the confirmation hook is called (lines 555-560) or
\* decideResumeOffset starts with its stat.
Mkdir(s) ==
    LET r == sess[s]
        rel == r.targetPath.rel
        parents == {Path(SubSeq(rel, 1, n), 0, NoTag) : n \in 1..(Len(rel) - 1)}
    IN /\ r.pc = "mkdir"
       /\ IF \E p \in parents : dir[p] > 0 THEN FailAndReturn(s, r, "EEXIST")
          ELSE /\ sess' = [sess EXCEPT ![s] =
                            IF options.confirmTransfer
                            THEN [r EXCEPT !.pc = "confirm", !.asked = @ + 1]
                            ELSE [r EXCEPT !.pc = "stat"]]
               /\ dir' = [p \in AllPaths |-> IF p \in parents THEN Folder ELSE dir[p]]
               /\ UNCHANGED <<server, discovery, options, pairingState, now, ttlTimerDue, notified, lastTtl, files, snd, lan>>

\* What the confirmation hook may resolve to: a boolean, or an object with
\* accept and an optional message.
Decision(isBoolean, accept, message) ==
    [isBoolean |-> isBoolean, accept |-> accept, message |-> message]
Decisions ==
    {Decision(TRUE, TRUE, ""), Decision(TRUE, FALSE, ""), Decision(FALSE, TRUE, ""),
     Decision(FALSE, FALSE, ""), Decision(FALSE, FALSE, "busy")}

\* A rejection that never carries the hook's message.
RejectionDefault(decision) == "receiver rejected transfer"

\* Lines 563-566: the message of a rejection.
Rejection(decision) ==
    IF decision.isBoolean THEN "receiver rejected transfer"
    ELSE IF decision.message # "" THEN decision.message
    ELSE "receiver rejected transfer"

\* Lines 561-570: the confirmation hook settles, with a decision or with an
\* error.
Confirm(s) ==
    LET r == sess[s]
    IN /\ r.pc = "confirm"
       /\ \/ \E decision \in Decisions :
                IF decision.accept THEN Step(s, [r EXCEPT !.pc = "stat"])
                ELSE FailAndReturn(s, [r EXCEPT !.refused = <<decision>>], Rejection(decision))
          \/ FailAndReturn(s, r, "confirm failed")

\* decideResumeOffset, lines 775-795: the stat of the temp file.
Stat(s) ==
    LET r == sess[s]
        at == Resolved(dir, r.tempPath)
        size == Len(files[dir[at]])
    IN /\ r.pc = "stat"
       /\ IF ~pathExists(dir, at) THEN Proceed(s, r, 0)
          ELSE IF dir[at] = Folder THEN FailAndReturn(s, r, "target path is not a regular file")
          ELSE IF size <= 0 THEN Proceed(s, r, 0)
          ELSE IF size > r.header.fileSize THEN Proceed(s, r, 0)
          ELSE IF size = r.header.fileSize
          THEN Step(s, [r EXCEPT !.statSize = size, !.pc = "digest"])
          ELSE Step(s, [r EXCEPT !.statSize = size, !.pc = "seed"])

\* decideResumeOffset trusting a temp file of the full size unread.
DigestTrustsSize(s) ==
    /\ sess[s].pc = "digest"
    /\ Step(s, [sess[s] EXCEPT !.pc = "seed"])

\* decideResumeOffset, lines 797-801: sha256File of a temp of the full size.
Digest(s) ==
    LET r == sess[s]
        at == Resolved(dir, r.tempPath)
    IN /\ r.pc = "digest"
       /\ IF ~pathExists(dir, at) THEN FailAndReturn(s, r, "ENOENT")
          ELSE IF sha256(files[dir[at]]) # r.header.sha256 THEN Proceed(s, r, 0)
          ELSE Step(s, [r EXCEPT !.pc = "seed"])

\* updateHashFromFilePrefix (utils.ts:23-35), lines 802 and 806: the hasher
\* is fed the first statSize bytes the file holds when it is read.
Seed(s) ==
    LET r == sess[s]
        at == Resolved(dir, r.tempPath)
    IN /\ r.pc = "seed"
       /\ IF ~pathExists(dir, at) THEN FailAndReturn(s, r, "ENOENT")
          ELSE Proceed(s, [r EXCEPT !.hasher = hasherUpdate(@, Prefix(files[dir[at]], r.statSize))],
                       r.statSize)

\* One round of the receive loop, lines 598-622: readChunk hands over the
\* whole buffer, writePayload (lines 887-907) checks, hashes, counts and
\* writes it; when the peer has closed the loop ends.
writePayload(r, payload) ==
    [r EXCEPT !.hasher = hasherUpdate(@, payload),
              !.received = @ + Len(payload),
              !.pc = IF r.stream = "destroyed" THEN "hung" ELSE @]

Recv(s) ==
    LET r == sess[s]
        chunk == r.buffer
        taken == [r EXCEPT !.buffer = <<>>]
        written == writePayload(taken, chunk)
    IN /\ r.pc = "recv"
       /\ IF r.error THEN FailAndReturn(s, r, "socket error")
          ELSE IF Len(chunk) > 0
          THEN IF r.received + Len(chunk) > r.header.fileSize
               THEN FailAndReturn(s, taken, "payload exceeds declared file size")
               ELSE IF r.stream = "none"
               THEN FailAndReturn(s, taken, "unexpected payload for already complete file")
               ELSE /\ sess' = [sess EXCEPT ![s] = IF written.pc = "hung" THEN written ELSE Loop(written)]
                    /\ files' = IF r.stream = "open"
                                THEN [files EXCEPT ![r.fd] = WriteAt(@, r.received, chunk)]
                                ELSE files
                    /\ UNCHANGED <<server, discovery, options, pairingState, now, ttlTimerDue, notified, lastTtl, dir, snd, lan>>
          ELSE /\ r.ended
               /\ FailAndReturn(s, r, "size mismatch")

\* Lines 624-634: finished(fileStream) settles; the stream is closed, or it
\* was destroyed by a failure and the await throws.
Flush(s) ==
    LET r == sess[s]
    IN /\ r.pc = "flush"
       /\ r.stream \in {"open", "destroyed"}
       /\ IF r.stream = "destroyed" THEN FailAndReturn(s, r, "premature close")
          ELSE /\ sess' = [sess EXCEPT ![s] = Verify([r EXCEPT !.stream = "closed", !.fd = 0])]
               /\ files' = Collect(dir, sess', files)
               /\ UNCHANGED <<server, discovery, options, pairingState, now, ttlTimerDue, notified, lastTtl, dir, snd, lan>>

\* The fileStream "error" handler, lines 583-585: fail runs from the
\* callback while the handler stays suspended where it was.
DiskError(s) ==
    LET r == sess[s]
    IN /\ r.pc \in {"recv", "flush"}
       /\ r.stream \in {"open", "bad"}
       /\ sess' = [sess EXCEPT ![s] = fail(r, "cannot write target file")]
       /\ files' = Collect(dir, sess', files)
       /\ UNCHANGED <<server, discovery, options, pairingState, now, ttlTimerDue, notified, lastTtl, dir, snd, lan>>

\* fail("sha256 mismatch") without cleanup: the temp file stays.
RmKeepingTemp(s) ==
    /\ sess[s].pc = "rm"
    /\ FailAndReturn(s, [sess[s] EXCEPT !.failed = FALSE], sess[s].message)

\* fail("sha256 mismatch", true), lines 490-525, after its rm: the temp file
\* is gone, the failure frame is written, the handler returns.
Rm(s) ==
    LET r == sess[s]
    IN /\ r.pc = "rm"
       /\ sess' = [sess EXCEPT ![s] = Finally(EmitFailure(r, r.message))]
       /\ dir' = [dir EXCEPT ![Resolved(dir, r.tempPath)] = 0]
       /\ files' = Collect(dir', sess', files)
       /\ pairingState' = Release(pairingState)
       /\ UNCHANGED <<server, discovery, options, now, ttlTimerDue, notified, lastTtl, snd, lan>>

\* fsPromises.rename: POSIX rename replaces an existing regular file, so
\* the failures are a missing source and a directory in the way.
rename(d, from, to) ==
    IF d[from] = 0 THEN "ENOENT" ELSE IF d[to] = Folder THEN "EISDIR" ELSE "ok"

\* onPairCodeChange(nextCode, reason) was called and returned.
Notify(n, nextCode, reason) == [count |-> n.count + 1, code |-> nextCode, reason |-> reason]

\* The ack echoing the code the sender presented.
NextPairCodeEcho(r, ps) == r.header.pairCode

\* Lines 644-646: the nextPairCode of an ack without per-transfer rotation.
NextPairCode(r, ps) == IF r.required # NoCode THEN ps.currentCode ELSE NoCode

\* Lines 649-659: the ack of a completed transfer.
Ack(r, savedPath, nextPairCode) ==
    [Write(r, AckOkMessage(hasherDigest(r.hasher), r.received, savedPath,
                           r.resumedFrom, nextPairCode))
       EXCEPT !.writable = FALSE]

\* What a per-transfer rotation may do: the generator throws, or it returns
\* its draws and the onPairCodeChange callback returns or throws.
RotationOutcomes ==
    {<<"generator throws", CHOOSE d \in GeneratorDraws(pairingState.currentCode) : TRUE>>}
    \cup {<<k, d>> : k \in {"notified", "callback throws"},
                     d \in GeneratorDraws(pairingState.currentCode)}

\* promoteReceivedFile (lines 741-765) and, once it returned, lines 636-666:
\* the rotation, the ack and the finally block.
Promote(s) ==
    LET r == sess[s]
        candidate == duplicatePathWithIndex(r.targetPath, r.index)
        at == Resolved(dir, r.tempPath)
        result == rename(dir, at, candidate)
        done == [r EXCEPT !.phase = "done", !.promoted = candidate]
    IN /\ r.pc = "promote"
       /\ IF result = "ENOENT"
          THEN FailAndReturn(s, r, "temporary receive file is missing")
          ELSE IF result = "EISDIR"
          THEN FailAndReturn(s, r, "EISDIR")
          ELSE IF result = "EEXIST"
          THEN IF r.index + 1 < MaxDuplicate
               THEN Step(s, [r EXCEPT !.index = @ + 1])
               ELSE FailAndReturn(s, r, "failed to choose final receive file path")
          ELSE /\ dir' = [dir EXCEPT ![candidate] = dir[at], ![at] = 0]
               /\ IF r.required # NoCode /\ options.rotatePairCodePerTransfer /\ options.generatePairCode
                  THEN \E outcome \in RotationOutcomes :
                         LET ps == rotatePairCodeOnce(pairingState, outcome[2])
                             rotated == [done EXCEPT !.rotated = @ + 1]
                         IN IF outcome[1] = "generator throws"
                            THEN /\ sess' = [sess EXCEPT ![s] = Finally(fail(done, "generator failed"))]
                                 /\ pairingState' = Release(pairingState)
                                 /\ UNCHANGED <<notified, lastTtl>>
                            ELSE /\ pairingState' = Release(ps)
                                 /\ lastTtl' = [lastTtl EXCEPT !.live = FALSE]
                                 /\ IF outcome[1] = "callback throws"
                                    THEN /\ sess' = [sess EXCEPT ![s] = Finally(fail(rotated, "callback failed"))]
                                         /\ UNCHANGED notified
                                    ELSE /\ sess' = [sess EXCEPT ![s] =
                                                Finally(Ack(rotated, candidate, ps.currentCode))]
                                         /\ notified' = Notify(notified, ps.currentCode, "once")
                  ELSE /\ sess' = [sess EXCEPT ![s] = Finally(Ack(done, candidate,
                                                                  NextPairCode(r, pairingState)))]
                       /\ pairingState' = Release(pairingState)
                       /\ UNCHANGED <<notified, lastTtl>>
               /\ files' = Collect(dir', sess', files)
               /\ UNCHANGED <<server, discovery, options, now, ttlTimerDue, snd, lan>>

\* ------------------------------------------------------------ time, timer

\* The setInterval callback of startReceiver, lines 266-271: skipped while a
\* transfer is active, else rotatePairCode("ttl"); the interval is re-armed.
TtlTick ==
    /\ ttlTimerDue >= 0
    /\ now >= ttlTimerDue
    /\ ttlTimerDue' = now + TtlMs
    /\ IF pairingState.activeTransfers > 0
       THEN UNCHANGED <<pairingState, notified, lastTtl>>
       ELSE \E draws \in GeneratorDraws(pairingState.currentCode) :
               LET ps == rotatePairCode(pairingState, draws, "ttl", options.pairCodeTtl, now)
               IN /\ pairingState' = ps
                  /\ notified' = Notify(notified, ps.currentCode, "ttl")
                  /\ lastTtl' = [old |-> pairingState.currentCode, at |-> now,
                                  until |-> now + TtlMs, live |-> TRUE,
                                  before |-> lastTtl.old]
    /\ UNCHANGED <<server, discovery, options, now, dir, files, sess, snd, lan>>

\* The clock moves on. Only the TTL timer and the grace window read it, so
\* it stands still without a timer; the timer's callback runs when it is due.
Advance ==
    /\ now < MaxTime
    /\ ttlTimerDue >= 0
    /\ now < ttlTimerDue
    /\ now' = now + 1
    /\ UNCHANGED <<server, discovery, options, pairingState, ttlTimerDue, notified, lastTtl, dir, files, sess, snd, lan>>

\* -------------------------------------------------------------------- stop

\* socket.destroy(): the socket closes, and its reader sees the close.
destroy(r) == [r EXCEPT !.ended = TRUE, !.writable = FALSE, !.destroyed = TRUE]

\* The sockets of activeSockets: accepted and not yet closed.
activeSockets == {s \in Sessions : sess[s].pc # "idle" /\ ~sess[s].destroyed}

\* The stop handle, lines 303-312: the interval is cleared, the active
\* sockets are destroyed, and stopPublish is awaited.
Stop ==
    /\ server.pc = "returned"
    /\ server.stop = "none"
    /\ server' = [server EXCEPT !.stop = "publish"]
    /\ ttlTimerDue' = -1
    /\ sess' = [s \in Sessions |-> IF s \in activeSockets THEN destroy(sess[s]) ELSE sess[s]]
    /\ UNCHANGED <<discovery, options, pairingState, now, notified, lastTtl, dir, files, snd, lan>>

\* stopPublish resolved; closeServer (lines 420-456) calls server.close,
\* which stops the listening, and awaits its callback or its 2-second timer.
StopPublished ==
    /\ server.stop = "publish"
    /\ server' = [server EXCEPT !.listening = FALSE, !.published = FALSE, !.stop = "close"]
    /\ UNCHANGED <<discovery, options, pairingState, now, ttlTimerDue, notified, lastTtl, dir, files, sess, snd, lan>>

\* closeServer settles, by the callback of server.close or by the timer.
StopClosed ==
    /\ server.stop = "close"
    /\ server' = [server EXCEPT !.stop = "done"]
    /\ UNCHANGED <<discovery, options, pairingState, now, ttlTimerDue, notified, lastTtl, dir, files, sess, snd, lan>>

\* ------------------------------------------------------------------- start

\* startReceiver, lines 222-272: the options it accepts and the state it
\* leaves. A rotation needs the generator (line 230); without a pair code a
\* rotating receiver generates its first code (line 237).
ListenOptions ==
    {o \in [pairCode : {NoCode} \cup Codes,
            rotatePairCodePerTransfer : BOOLEAN,
            pairCodeTtl : BOOLEAN,
            generatePairCode : BOOLEAN,
            confirmTransfer : BOOLEAN] :
        o.generatePairCode = (o.rotatePairCodePerTransfer \/ o.pairCodeTtl)}

FirstCodes(o) ==
    IF o.pairCode # NoCode THEN {o.pairCode}
    ELSE IF o.generatePairCode THEN Codes
    ELSE {NoCode}

\* An output directory: what is at each path, and the bytes of each file.
EmptyDisk == [dir |-> [p \in AllPaths |-> 0], files |-> [i \in FileIds |-> <<>>]]
\* The disk with one more file, of the given bytes, at path p.
WithFile(disk, p, content) ==
    LET id == CHOOSE i \in FileIds :
                 /\ \A q \in AllPaths : disk.dir[q] # i
                 /\ \A j \in FileIds : (\A q \in AllPaths : disk.dir[q] # j) => i <= j
    IN [dir |-> [disk.dir EXCEPT ![p] = id], files |-> [disk.files EXCEPT ![id] = content]]

StartedOn(o, first, disk) ==
    /\ discovery = NoDiscovery
    /\ server = Listening
    /\ options = o
    /\ pairingState = [currentCode |-> first, previousCode |-> NoCode,
                       previousCodeValidUntilMs |-> 0, activeTransfers |-> 0]
    /\ now = 0
    /\ ttlTimerDue = IF o.pairCodeTtl /\ first # NoCode THEN TtlMs ELSE -1
    /\ notified = [count |-> 0, code |-> NoCode, reason |-> ""]
    /\ lastTtl = [old |-> NoCode, at |-> 0, until |-> 0, live |-> FALSE, before |-> NoCode]
    /\ dir = disk.dir
    /\ files = disk.files
    /\ sess = [s \in Sessions |-> NewSession]

\* startReceiver on an output directory that holds nothing yet.
Started(o, first) == StartedOn(o, first, EmptyDisk)

\* The options a caller may pass to startReceiver, valid or not:
\* pairCodeTtlSeconds is absent (0), one TTL, or negative; pairCodeTtl says
\* whether it is truthy.
StartOptions ==
    {o \in [pairCode : {NoCode, "111111"},
            rotatePairCodePerTransfer : BOOLEAN,
            pairCodeTtlSeconds : {-1, 0, 1},
            pairCodeTtl : BOOLEAN,
            generatePairCode : BOOLEAN,
            confirmTransfer : {FALSE}] :
        o.pairCodeTtl = (o.pairCodeTtlSeconds # 0)}

\* startReceiver throws: nothing of lines 220-301 is undone.
StartThrows(srv, message) == [srv EXCEPT !.pc = "failed", !.error = message]

\* startReceiver, lines 220-301, from publishService to the await of the
\* listen promise: the service is published, the options are checked, the
\* first pair code is generated, the interval is set and the server created.
StartReceiver ==
    LET published == [server EXCEPT !.published = TRUE]
        needsGenerator == options.rotatePairCodePerTransfer \/ options.pairCodeTtl
    IN /\ server.pc = "start"
       /\ IF needsGenerator /\ ~options.generatePairCode
          THEN /\ server' = StartThrows(published, "generatePairCode is required when pair code rotation is enabled")
               /\ UNCHANGED <<pairingState, ttlTimerDue>>
          ELSE IF options.pairCodeTtl /\ options.pairCodeTtlSeconds <= 0
          THEN /\ server' = StartThrows(published, "pairCodeTtlSeconds must be positive")
               /\ UNCHANGED <<pairingState, ttlTimerDue>>
          ELSE \E first \in (IF needsGenerator /\ pairingState.currentCode = NoCode
                                 /\ options.generatePairCode
                              THEN Codes ELSE {pairingState.currentCode}) :
                  /\ pairingState' = [pairingState EXCEPT !.currentCode = first]
                  /\ ttlTimerDue' = IF options.pairCodeTtl /\ first # NoCode
                                    THEN now + TtlMs ELSE -1
                  /\ server' = [published EXCEPT !.pc = "listen"]
       /\ UNCHANGED <<discovery, options, now, notified, lastTtl, dir, files, sess, snd, lan>>

\* The callback of server.listen (line 300): the promise resolves and
\* startReceiver returns its stop handle.
Listen ==
    /\ server.pc = "listen"
    /\ server' = [server EXCEPT !.listening = TRUE, !.pc = "returned"]
    /\ UNCHANGED <<discovery, options, pairingState, now, ttlTimerDue, notified, lastTtl, dir, files, sess, snd, lan>>

\* The "error" event of the server (line 299), the port being taken: the
\* promise rejects and startReceiver throws.
ListenError ==
    /\ server.pc = "listen"
    /\ server' = StartThrows(server, "EADDRINUSE")
    /\ UNCHANGED <<discovery, options, pairingState, now, ttlTimerDue, notified, lastTtl, dir, files, sess, snd, lan>>

\* --------------------------------------------------------------- TLS trust

\* cert.raw of the certificates a server may present; NoCert: none readable.
Certs == {<<1>>, <<2>>}
NoCert == <<>>

\* A fingerprint string: the digest it spells and how it is written, as 64
\* lowercase hex characters ("lower"), in upper case with colons ("colons"),
\* or as something else ("malformed"). NoFingerprint is undefined or "".
Fingerprint(digest, form) == [digest |-> digest, form |-> form]
NoFingerprint == Fingerprint(NoSha, "")

\* normalizeFingerprint comparing the string as it was given.
normalizeFingerprintAsGiven(input) ==
    IF input.form = "malformed"
    THEN Thrown("TLS fingerprint must be SHA-256 hex (64 chars, colon optional)")
    ELSE Returned(input)

\* normalizeFingerprint (tlsTrust.ts:20-26): colons out, lower case, and
\* what then is not 64 hex characters throws.
normalizeFingerprint(input) ==
    IF input.form \notin {"lower", "colons"}
    THEN Thrown("TLS fingerprint must be SHA-256 hex (64 chars, colon optional)")
    ELSE Returned(Fingerprint(input.digest, "lower"))

\* getPeerFingerprint (tlsTrust.ts:32-38)
getPeerFingerprint(cert) ==
    IF cert = NoCert THEN Thrown("cannot read server TLS certificate")
    ELSE Returned(Fingerprint(sha256(cert), "lower"))

\* The hosts a sender may name, and host.toLowerCase().
Hosts == {"peer.local", "Peer.Local"}
toLowerCase(host) == IF host = "Peer.Local" THEN "peer.local" ELSE host
\* buildEndpointKey keeping the host as it was typed.
buildEndpointKeyAsTyped(host) == host
\* buildEndpointKey (tlsTrust.ts:75-77); the port is DEFAULT_PORT throughout.
buildEndpointKey(host) == toLowerCase(host)

\* The known-hosts file: endpoint key -> fingerprint string (NoFingerprint:
\* no entry).
Endpoints == Hosts \cup {"other.local"}
NoKnownHosts == [e \in Endpoints |-> NoFingerprint]
\* loadKnownHosts (tlsTrust.ts:79-99): every value is normalized.
loadKnownHosts(file) ==
    IF \E e \in Endpoints : file[e] # NoFingerprint /\ ~normalizeFingerprint(file[e]).ok
    THEN Thrown("failed to read known hosts")
    ELSE Returned([e \in Endpoints |->
                     IF file[e] = NoFingerprint THEN NoFingerprint
                     ELSE normalizeFingerprint(file[e]).value])

\* SendFileOptions.tls with the host of the target.
Tls(enabled, fingerprint, trustOnFirstUse, host) ==
    [enabled |-> enabled, fingerprint |-> fingerprint, trustOnFirstUse |-> trustOnFirstUse,
     host |-> host]
NoTls == Tls(FALSE, NoFingerprint, FALSE, "peer.local")

\* The options of the send command that bear on TLS trust.
Opts(tls, tlsFingerprint, tlsTofu, host) ==
    [tls |-> tls, tlsFingerprint |-> tlsFingerprint, tlsTofu |-> tlsTofu, host |-> host]
NoOpts == Opts(FALSE, NoFingerprint, FALSE, "peer.local")

\* ------------------------------------------------- sendEntries, sendFile

\* The sender's locals: the loop of sendEntries (index, activePairCode,
\* results) and the sendFile call in progress (its socket's session, the
\* frames read so far, the bytes streamed so far).
\*   pairCode  options.pairCode, the caller's pair code
\*   headers   history: the header written for each entry so far
\*   wire      history: the payload bytes written to the current socket
\*   opts      the options of the CLI's send command (cli.ts:316-328)
\*   tls       SendFileOptions.tls and host; knownHosts: the known-hosts file
\*   peerCert  the certificate the server presented in the handshake
\*   loaded    verifyTlsPeer's knownHosts object between its awaits
\*   reads, writes  history: how often the known-hosts file was read, written
\*   other     another verifyTlsPeer call on the same known-hosts path, made
\*             by another send to the endpoint other.local: where it is
\*             ("off", "knownHosts", "save", "done", "failed"), its
\*             knownHosts object, and whether it wrote the file
NoVerifier == [pc |-> "off", loaded |-> NoKnownHosts, wrote |-> FALSE]
NewSender(pairCode) ==
    [pc |-> "next", index |-> 1, pairCode |-> pairCode, activePairCode |-> pairCode, session |-> 0,
     read |-> 0, sent |-> 0, results |-> <<>>, headers |-> <<>>, error |-> "", wire |-> <<>>,
     opts |-> NoOpts, tls |-> NoTls, knownHosts |-> NoKnownHosts, peerCert |-> NoCert,
     loaded |-> NoKnownHosts, reads |-> 0, writes |-> 0, other |-> NoVerifier]

NoSender == [NewSender(NoCode) EXCEPT !.pc = "off"]

Entry(i) == [relativePath |-> <<EntryPaths[i]>>, content |-> lan.entries[i]]

\* The finally block of sendFile, lines 412-417, after a throw: the socket is
\* destroyed, and sendEntries rejects with the error.
SenderDestroys(r) ==
    IF r.pc = "closed" THEN r
    ELSE [r EXCEPT !.ended = TRUE, !.writable = FALSE, !.destroyed = TRUE]

\* sendEntries going on to the next entry after a failed sendFile.
SendFailsAndGoesOn(message) ==
    /\ snd' = [snd EXCEPT !.pc = "next", !.index = @ + 1, !.error = message]
    /\ sess' = [sess EXCEPT ![snd.session] = SenderDestroys(@)]
    /\ UNCHANGED <<server, discovery, options, pairingState, now, ttlTimerDue, notified, lastTtl, dir, files, lan>>

SendFails(message) ==
    /\ snd' = [snd EXCEPT !.pc = "failed", !.error = message]
    /\ sess' = [sess EXCEPT ![snd.session] = SenderDestroys(@)]
    /\ UNCHANGED <<server, discovery, options, pairingState, now, ttlTimerDue, notified, lastTtl, dir, files, lan>>

\* sendEntries lines 323-334 and sendFile lines 351-374: the next entry's
\* header is built, the connection is opened (the receiver's listener runs
\* handleIncomingSocket up to its first await) and the header is written.
SendHeader ==
    /\ snd.pc = "next"
    /\ ~snd.tls.enabled
    /\ snd.index <= Len(lan.entries)
    /\ \E s \in Sessions :
        /\ sess[s].pc = "idle"
        /\ \A q \in Sessions : q < s => sess[q].pc # "idle"
        /\ LET header == Header(normalizeTransferPath(Entry(snd.index).relativePath).value,
                                Len(Entry(snd.index).content),
                                sha256(Entry(snd.index).content),
                                snd.activePairCode)
           IN /\ sess' = [sess EXCEPT ![s] =
                            [Accepted(@, "sender") EXCEPT !.hasLine = TRUE, !.line = header,
                                                          !.peerHeader = TRUE]]
              /\ snd' = [snd EXCEPT !.pc = "ready", !.session = s, !.read = 0, !.sent = 0,
                                    !.headers = Append(@, header), !.wire = <<>>]
    /\ pairingState' = [pairingState EXCEPT !.activeTransfers = @ + 1]
    /\ server.listening
    /\ server' = Accepts(server)
    /\ UNCHANGED <<discovery, options, now, ttlTimerDue, notified, lastTtl, dir, files, lan>>

\* The send command's action, cli.ts:330-392: the option checks, then
\* sendEntries is called with the TLS options.
SendCommand ==
    LET o == snd.opts
        given == o.tlsFingerprint # NoFingerprint
        failed(message) == snd' = [snd EXCEPT !.pc = "failed", !.error = message]
    IN /\ snd.pc = "cli"
       /\ IF given /\ ~o.tls THEN failed("--tls-fingerprint requires --tls")
          ELSE IF o.tlsTofu /\ ~o.tls THEN failed("--tls-tofu requires --tls")
          ELSE IF given /\ o.tlsTofu
          THEN failed("--tls-fingerprint and --tls-tofu are mutually exclusive")
          ELSE IF given /\ ~normalizeFingerprint(o.tlsFingerprint).ok
          THEN failed(normalizeFingerprint(o.tlsFingerprint).message)
          ELSE snd' = [snd EXCEPT !.pc = "next",
                                  !.tls = IF o.tls
                                          THEN Tls(TRUE,
                                                   IF given
                                                   THEN normalizeFingerprint(o.tlsFingerprint).value
                                                   ELSE NoFingerprint,
                                                   o.tlsTofu, o.host)
                                          ELSE NoTls]
       /\ UNCHANGED <<server, discovery, options, pairingState, now, ttlTimerDue, notified, lastTtl, dir, files, sess, lan>>

\* sendFile lines 351-373 on a TLS send: the connection is opened and the
\* handshake completes (waitConnected resolves on secureConnect); the
\* receiver's listener runs handleIncomingSocket up to its first await.
SendConnect ==
    /\ snd.pc = "next"
    /\ snd.tls.enabled
    /\ snd.index <= Len(lan.entries)
    /\ \E s \in Sessions : \E cert \in Certs \cup {NoCert} :
        /\ sess[s].pc = "idle"
        /\ \A q \in Sessions : q < s => sess[q].pc # "idle"
        /\ sess' = [sess EXCEPT ![s] = Accepted(@, "sender")]
        /\ snd' = [snd EXCEPT !.pc = "verify", !.session = s, !.read = 0, !.sent = 0,
                              !.wire = <<>>, !.peerCert = cert]
    /\ pairingState' = [pairingState EXCEPT !.activeTransfers = @ + 1]
    /\ server.listening
    /\ server' = Accepts(server)
    /\ UNCHANGED <<discovery, options, now, ttlTimerDue, notified, lastTtl, dir, files, lan>>

\* sendFile line 375: socket.write(encodeJsonLine(header)).
WriteHeader(sender) ==
    LET header == Header(normalizeTransferPath(Entry(snd.index).relativePath).value,
                         Len(Entry(snd.index).content),
                         sha256(Entry(snd.index).content),
                         snd.activePairCode)
        r == sess[snd.session]
    IN /\ snd' = [sender EXCEPT !.pc = "ready", !.headers = Append(@, header)]
       /\ sess' = [sess EXCEPT ![snd.session] =
                     IF r.pc = "closed" \/ r.destroyed THEN r
                     ELSE [r EXCEPT !.hasLine = TRUE, !.line = header, !.peerHeader = TRUE]]
       /\ UNCHANGED <<server, discovery, options, pairingState, now, ttlTimerDue, notified, lastTtl, dir, files, lan>>

\* The send fails in verifyTlsPeer.
VerifyFails(sender, message) ==
    /\ snd' = [sender EXCEPT !.pc = "failed", !.error = message]
    /\ sess' = [sess EXCEPT ![snd.session] = SenderDestroys(@)]
    /\ UNCHANGED <<server, discovery, options, pairingState, now, ttlTimerDue, notified, lastTtl, dir, files, lan>>

\* verifyTlsPeer, tlsTrust.ts:40-59: the pin is compared, or the known-hosts
\* file is about to be read, or there is nothing to verify.
SendVerify ==
    LET peerFingerprint == getPeerFingerprint(snd.peerCert)
        expected == normalizeFingerprint(snd.tls.fingerprint)
    IN /\ snd.pc = "verify"
       /\ IF ~peerFingerprint.ok THEN VerifyFails(snd, peerFingerprint.message)
          ELSE IF snd.tls.fingerprint # NoFingerprint
          THEN IF ~expected.ok THEN VerifyFails(snd, expected.message)
               ELSE IF peerFingerprint.value # expected.value
               THEN VerifyFails(snd, "TLS fingerprint mismatch")
               ELSE WriteHeader(snd)
          ELSE IF ~snd.tls.trustOnFirstUse THEN WriteHeader(snd)
          ELSE /\ snd' = [snd EXCEPT !.pc = "knownHosts"]
               /\ UNCHANGED <<server, discovery, options, pairingState, now, ttlTimerDue, notified, lastTtl,
                              dir, files, sess, lan>>

\* verifyTlsPeer, tlsTrust.ts:59-71: the known-hosts file was read; a known
\* endpoint is compared, an unknown one is entered and the file is about to
\* be written.
SendKnownHosts ==
    LET peerFingerprint == getPeerFingerprint(snd.peerCert).value
        endpoint == buildEndpointKey(snd.tls.host)
        knownHosts == loadKnownHosts(snd.knownHosts)
        read == [snd EXCEPT !.reads = @ + 1]
    IN /\ snd.pc = "knownHosts"
       /\ IF ~knownHosts.ok THEN VerifyFails(read, knownHosts.message)
          ELSE IF knownHosts.value[endpoint] # NoFingerprint
          THEN IF knownHosts.value[endpoint] # peerFingerprint
               THEN VerifyFails(read, "TLS fingerprint changed")
               ELSE WriteHeader(read)
          ELSE /\ snd' = [read EXCEPT !.pc = "save",
                                       !.loaded = [knownHosts.value EXCEPT ![endpoint] = peerFingerprint]]
               /\ UNCHANGED <<server, discovery, options, pairingState, now, ttlTimerDue, notified, lastTtl,
                              dir, files, sess, lan>>

\* verifyTlsPeer, tlsTrust.ts:71-73: saveKnownHosts wrote the file.
SendTrust ==
    /\ snd.pc = "save"
    /\ WriteHeader([snd EXCEPT !.knownHosts = snd.loaded, !.loaded = NoKnownHosts,
                               !.writes = @ + 1])

\* The certificate the server at other.local presents.
OtherCert == <<2>>

\* verifyTlsPeer of the other send, tlsTrust.ts:57-70: the known-hosts file
\* was read; a known endpoint is compared, an unknown one is entered in the
\* object read and the file is about to be written.
OtherKnownHosts ==
    LET peerFingerprint == getPeerFingerprint(OtherCert).value
        endpoint == buildEndpointKey("other.local")
        knownHosts == loadKnownHosts(snd.knownHosts)
    IN /\ snd.other.pc = "knownHosts"
       /\ snd' = [snd EXCEPT !.other =
                    IF ~knownHosts.ok THEN [@ EXCEPT !.pc = "failed"]
                    ELSE IF knownHosts.value[endpoint] # NoFingerprint
                    THEN [@ EXCEPT !.pc = IF knownHosts.value[endpoint] # peerFingerprint
                                          THEN "failed" ELSE "done"]
                    ELSE [@ EXCEPT !.pc = "save",
                                   !.loaded = [knownHosts.value EXCEPT ![endpoint] = peerFingerprint]]]
       /\ UNCHANGED <<server, discovery, options, pairingState, now, ttlTimerDue, notified, lastTtl,
                      dir, files, sess, lan>>

\* verifyTlsPeer of the other send, tlsTrust.ts:71-73: saveKnownHosts wrote
\* the file from the object read before.
OtherTrust ==
    /\ snd.other.pc = "save"
    /\ snd' = [snd EXCEPT !.knownHosts = snd.other.loaded,
                          !.other = [pc |-> "done", loaded |-> NoKnownHosts, wrote |-> TRUE]]
    /\ UNCHANGED <<server, discovery, options, pairingState, now, ttlTimerDue, notified, lastTtl,
                   dir, files, sess, lan>>

\* Whether the sender's reader has seen the receiver's side of the
\* connection close with no further frame.
ClosedAfter(r, n) == Len(r.out) <= n /\ (r.pc = "closed" \/ r.destroyed)

\* message ?? "receiver rejected transfer" (lines 381-383, 407-409); a frame
\* without a message carries "".
MessageOf(frame) == IF frame.message = "" THEN "receiver rejected transfer" ELSE frame.message

\* sendFile line 386 checking the lower end only.
InvalidOffsetBelow(offset, size) == offset < 0
\* sendFile line 386: the offset lies outside the file.
InvalidOffset(offset, size) == offset < 0 \/ offset > size

\* sendFile lines 376-401: the ready line is read; the payload is streamed
\* from the offset, or the socket is ended at once.
SendReady ==
    LET r == sess[snd.session]
        ready == r.out[1]
        size == Len(Entry(snd.index).content)
    IN /\ snd.pc = "ready"
       /\ IF Len(r.out) >= 1
          THEN IF ready.type # "ready" THEN SendFails("protocol error: expected ready message")
               ELSE IF ~ready.ok THEN SendFails(MessageOf(ready))
               ELSE IF InvalidOffset(ready.offset, size) THEN SendFails("invalid resume offset")
               ELSE /\ snd' = [snd EXCEPT !.pc = IF ready.offset < size THEN "stream" ELSE "ack",
                                          !.read = 1, !.sent = ready.offset]
                    /\ sess' = IF ready.offset < size THEN sess
                               ELSE [sess EXCEPT ![snd.session] = onEnd(@)]
                    /\ UNCHANGED <<server, discovery, options, pairingState, now, ttlTimerDue, notified, lastTtl,
                                   dir, files, lan>>
          ELSE /\ ClosedAfter(r, 0)
               /\ SendFails("connection closed before ready")

\* streamFileRange, lines 860-875: one chunk of the source is written to the
\* socket; after the last one the socket is ended (line 397).
SendChunk ==
    LET r == sess[snd.session]
        content == Entry(snd.index).content
        last == snd.sent + 1 = Len(content)
    IN /\ snd.pc = "stream"
       /\ snd.sent < Len(content)
       /\ snd' = [snd EXCEPT !.sent = @ + 1, !.pc = IF last THEN "ack" ELSE @,
                             !.wire = Append(@, content[snd.sent + 1])]
       /\ sess' = [sess EXCEPT ![snd.session] =
                     IF r.pc = "closed" \/ r.destroyed THEN r
                     ELSE IF last THEN onEnd(onData(r, <<content[snd.sent + 1]>>))
                     ELSE onData(r, <<content[snd.sent + 1]>>)]
       /\ UNCHANGED <<server, discovery, options, pairingState, now, ttlTimerDue, notified, lastTtl, dir, files, lan>>

\* streamFileRange's onError, lines 853-856: the socket fails while streaming.
SendStreamError ==
    /\ snd.pc = "stream"
    /\ sess[snd.session].destroyed
    /\ SendFails("socket error")

\* sendEntries sending every entry with the caller's pair code.
KeepPairCode(activePairCode, ack) == activePairCode

\* sendEntries lines 337-339: the pair code of the next entry.
NextActivePairCode(activePairCode, ack) ==
    IF ack.nextPairCode # NoCode THEN ack.nextPairCode ELSE activePairCode

\* sendFile lines 403-411 and sendEntries lines 335-339: the ack line is
\* read, recorded, and its nextPairCode becomes the active pair code.
SendAck ==
    LET r == sess[snd.session]
        ack == r.out[2]
    IN /\ snd.pc = "ack"
       /\ IF Len(r.out) >= 2
          THEN IF ack.type # "ack" THEN SendFails("protocol error: expected ack message")
               ELSE IF ~ack.ok THEN SendFails(MessageOf(ack))
               ELSE /\ snd' = [snd EXCEPT !.pc = IF snd.index < Len(lan.entries) THEN "next" ELSE "done",
                                          !.index = @ + 1,
                                          !.read = 2,
                                          !.results = Append(@, ack),
                                          !.activePairCode = NextActivePairCode(@, ack)]
                    /\ UNCHANGED <<server, discovery, options, pairingState, now, ttlTimerDue, notified, lastTtl,
                                   dir, files, sess, lan>>
          ELSE /\ ClosedAfter(r, 1)
               /\ SendFails("connection closed before ack")

\* The sender's connection breaks while it streams the payload of its first
\* attempt, the temp file holding nothing but a prefix of the source: the
\* send fails and the receiver's socket closes.
SendInterrupted ==
    LET found == sess[snd.session].found
        content == Entry(snd.index).content
    IN /\ snd.pc = "stream"
       /\ Len(snd.headers) = 1
       /\ IF found = <<>> THEN TRUE ELSE found[1] = Prefix(content, Len(found[1]))
       /\ SendFails("interrupted")

\* The caller sends the failed entry again once the receiver has ended the
\* failed attempt's session: another sendFile call with the same header.
SendRetry ==
    /\ snd.pc = "failed"
    /\ snd.session \in Sessions
    /\ sess[snd.session].pc = "closed"
    /\ \E s \in Sessions : sess[s].pc = "idle"
    /\ snd' = [snd EXCEPT !.pc = "next", !.error = ""]
    /\ UNCHANGED <<server, discovery, options, pairingState, now, ttlTimerDue, notified, lastTtl, dir, files, sess, lan>>

\* sendFile lines 351-375 towards a server that is not this program's
\* receiver: the connection is opened and the header is written; what comes
\* back is up to that server.
SendHeaderElsewhere ==
    /\ snd.pc = "next"
    /\ ~snd.tls.enabled
    /\ snd.index <= Len(lan.entries)
    /\ \E s \in Sessions :
        /\ sess[s].pc = "idle"
        /\ \A q \in Sessions : q < s => sess[q].pc # "idle"
        /\ LET header == Header(normalizeTransferPath(Entry(snd.index).relativePath).value,
                                Len(Entry(snd.index).content),
                                sha256(Entry(snd.index).content),
                                snd.activePairCode)
           IN /\ sess' = [sess EXCEPT ![s] = [@ EXCEPT !.pc = "elsewhere", !.peer = "sender"]]
              /\ snd' = [snd EXCEPT !.pc = "ready", !.session = s, !.read = 0, !.sent = 0,
                                    !.headers = Append(@, header), !.wire = <<>>]
    /\ UNCHANGED <<server, discovery, options, pairingState, now, ttlTimerDue, notified, lastTtl, dir, files, lan>>

\* The lines such a server may send: ready and ack frames of any content.
ServerFrames ==
    {ReadyMessage(ok, offset, "", NoPath) : ok \in BOOLEAN, offset \in (0 - 1)..(MaxSize + 1)}
    \cup {ReadyMessage(FALSE, 0, "busy", NoPath), AckFailMessage("busy"),
          AckOkMessage(NoSha, 0, NoPath, 0, NoCode)}

\* The server writes its next line.
ServerReplies(s) ==
    /\ sess[s].pc = "elsewhere" /\ ~sess[s].destroyed
    /\ Len(sess[s].out) < 2
    /\ \E frame \in ServerFrames : Step(s, [sess[s] EXCEPT !.out = Append(@, frame)])

\* The server drops the connection.
ServerDestroys(s) ==
    /\ sess[s].pc = "elsewhere" /\ ~sess[s].destroyed
    /\ Step(s, [sess[s] EXCEPT !.destroyed = TRUE, !.writable = FALSE])

\* --------------------------------------------------------------- discovery

\* An address as a peer or the system reports it: an optional "::ffff:"
\* prefix, groups of decimal digits separated by dots, an optional "%zone"
\* suffix.  text is FALSE for undefined and for the empty string.
Raw(mapped, groups, zone) == [text |-> TRUE, mapped |-> mapped, groups |-> groups, zone |-> zone]
NoAddress == [text |-> FALSE, mapped |-> FALSE, groups |-> <<>>, zone |-> FALSE]

RECURSIVE parseInt(_)
parseInt(digits) ==
    IF digits = <<>> THEN 0
    ELSE parseInt(SubSeq(digits, 1, Len(digits) - 1)) * 10 + digits[Len(digits)]

\* normalizeIpv4: the four octets ("a.b.c.d" once joined), or <<>> for null.
normalizeIpv4(raw) ==
    IF ~raw.text THEN <<>>
    ELSE IF Len(raw.groups) # 4 \/ \E i \in 1..4 : Len(raw.groups[i]) \notin 1..3 THEN <<>>
    ELSE LET octets == [i \in 1..4 |-> parseInt(raw.groups[i])]
         IN IF \E i \in 1..4 : octets[i] < 0 \/ octets[i] > 255 THEN <<>> ELSE octets

isLoopbackIpv4(address) == address[1] = 127

isLanIpv4AnySecond(address) ==
    \/ address[1] = 10
    \/ address[1] = 192 /\ address[2] = 168
    \/ address[1] = 172

isLanIpv4(address) ==
    \/ address[1] = 10
    \/ address[1] = 192 /\ address[2] = 168
    \/ Len(address) = 4 /\ address[1] = 172 /\ address[2] >= 16 /\ address[2] <= 31

\* ResolvedDiscoverDevicesOptions of a call without options.
DefaultDiscoverOptions == [includeSelf |-> FALSE, includeLoopback |-> FALSE, onlyLanIpv4 |-> TRUE]

isAllowedIpv4(address, o) ==
    IF isLoopbackIpv4(address) /\ ~o.includeLoopback THEN FALSE
    ELSE IF ~o.onlyLanIpv4 THEN TRUE
    ELSE isLanIpv4(address)

\* [...new Set(list)]: the first occurrence of each element, in order.
Unique(list) == SelectSeq([i \in 1..Len(list) |->
                              IF \E j \in 1..(i - 1) : list[j] = list[i] THEN <<>> ELSE <<list[i]>>],
                          LAMBDA x : x # <<>>)

RECURSIVE Flatten(_)
Flatten(lists) == IF lists = <<>> THEN <<>> ELSE Head(lists) \o Flatten(Tail(lists))

NewSet(list) == Flatten(Unique(list))

normalizeAddresses(input, o) ==
    LET normalized == [i \in 1..Len(input) |-> normalizeIpv4(input[i])]
        present == SelectSeq(normalized, LAMBDA value : value # <<>>)
    IN NewSet(SelectSeq(present, LAMBDA value : isAllowedIpv4(value, o)))

Find(list, Test(_)) ==
    LET hits == SelectSeq(list, Test) IN IF hits = <<>> THEN <<>> ELSE Head(hits)

\* chooseAddress: <<>> for undefined.
chooseAddress(addresses, o) ==
    LET preferred == Find(addresses, LAMBDA addr : ~(addr[1] = 169 /\ addr[2] = 254))
    IN IF preferred # <<>> THEN preferred
       ELSE Find(addresses, LAMBDA addr : isAllowedIpv4(addr, o))

Device(name, host, port, addresses) ==
    [name |-> name, host |-> host, port |-> port, addresses |-> addresses]
NoDevice == Device("", <<>>, 0, <<>>)

serviceToDevice(service, o) ==
    LET addresses == normalizeAddresses(service.addresses, o)
        host == chooseAddress(addresses, o)
    IN IF host = <<>> THEN NoDevice ELSE Device(service.name, host, service.port, addresses)

\* Map.set on a Map kept as the sequence of its entries: a known key keeps
\* its place, a new key goes last.
MapSet(map, key, value) ==
    IF \E i \in 1..Len(map) : map[i].key = key
    THEN [i \in 1..Len(map) |-> IF map[i].key = key THEN [key |-> key, value |-> value] ELSE map[i]]
    ELSE Append(map, [key |-> key, value |-> value])
MapValues(map) == [i \in 1..Len(map) |-> map[i].value]

HostPort(device) == <<device.host, device.port>>

RECURSIVE MergeInto(_, _)
MergeInto(merged, items) ==
    IF items = <<>> THEN merged
    ELSE LET item == Head(items)
             key == HostPort(item)
             existing == Find(MapValues(merged), LAMBDA d : HostPort(d) = key)
         IN IF existing = <<>>
            THEN MergeInto(MapSet(merged, key, item), Tail(items))
            ELSE MergeInto(MapSet(merged, key,
                                  [existing EXCEPT
                                      !.name = IF existing.name # "" THEN existing.name ELSE item.name,
                                      !.addresses = NewSet(existing.addresses \o item.addresses)]),
                           Tail(items))

mergeDevices(lists) == MapValues(MergeInto(<<>>, Flatten(lists)))

\* localIpv4Set over the interfaces networkInterfaces() reports.
localIpv4Set(interfaces, o) ==
    (IF o.includeLoopback THEN {<<127, 0, 0, 1>>} ELSE {})
    \cup {normalizeIpv4(item.address) :
             item \in {i \in interfaces : /\ i.family = "IPv4"
                                          /\ normalizeIpv4(i.address) # <<>>
                                          /\ isAllowedIpv4(normalizeIpv4(i.address), o)}}

isSelfDevice(device, localAddrs) ==
    \/ device.host \in localAddrs
    \/ \E i \in 1..Len(device.addresses) : device.addresses[i] \in localAddrs

\* What the network and the system may present to a discoverDevices call.
Digits(n) == IF n < 10 THEN <<n>>
             ELSE IF n < 100 THEN <<n \div 10, n % 10>>
             ELSE <<n \div 100, (n \div 10) % 10, n % 10>>
Dotted(a, b) == <<Digits(a), Digits(b), <<0>>, <<1>>>>
Plain(a, b) == Raw(FALSE, Dotted(a, b), FALSE)
PlainAddresses ==
    {Plain(10, 0), Plain(192, 168), Plain(172, 16), Plain(172, 32), Plain(127, 0),
     Plain(169, 254), Plain(8, 8)}
RawAddresses ==
    PlainAddresses
    \cup {Raw(TRUE, Dotted(10, 0), FALSE), Raw(FALSE, Dotted(10, 0), TRUE),
          Raw(FALSE, <<<<0, 1, 0>>, <<0>>, <<0, 0>>, <<1>>>>, FALSE),
          Raw(FALSE, <<<<9, 9, 9>>, <<0>>, <<0>>, <<1>>>>, FALSE),
          Raw(FALSE, <<<<1, 0>>, <<0>>, <<1>>>>, FALSE),
          NoAddress}
DeviceNames == {"", "a"}
DevicePorts == {0, 1}
Interfaces ==
    {[family |-> "IPv4", address |-> a] : a \in PlainAddresses}
    \cup {[family |-> "IPv6", address |-> Raw(FALSE, <<>>, TRUE)]}

\* discoverDevices up to its await: both transports start listening.
DiscoverDevices ==
    /\ discovery.pc = "idle"
    /\ discovery' = [discovery EXCEPT !.pc = "listening"]
    /\ UNCHANGED <<server, options, pairingState, now, ttlTimerDue, notified, lastTtl, dir, files,
                   sess, snd, lan>>

\* The callback of bonjour.find for one service (lines 196-203).
MdnsService ==
    /\ discovery.pc = "listening" /\ ~discovery.mdnsDone /\ discovery.heard < MaxHeard
    /\ \E name \in DeviceNames : \E port \in DevicePorts :
       \E addresses \in UNION {[1..n -> RawAddresses] : n \in 0..MaxAddresses} :
          LET device == serviceToDevice([name |-> name, port |-> port, addresses |-> addresses],
                                        DefaultDiscoverOptions)
          IN discovery' =
                [discovery EXCEPT
                    !.heard = @ + 1,
                    !.mdns = IF device = NoDevice THEN @
                             ELSE MapSet(@, <<device.name, device.host, device.port>>, device)]
    /\ UNCHANGED <<server, options, pairingState, now, ttlTimerDue, notified, lastTtl, dir, files,
                   sess, snd, lan>>

\* The "message" handler of discoverViaUdp for one datagram (lines 242-264).
UdpMessage ==
    /\ discovery.pc = "listening" /\ ~discovery.udpDone /\ discovery.heard < MaxHeard
    /\ \E magic \in BOOLEAN : \E name \in DeviceNames : \E port \in DevicePorts :
       \E address \in RawAddresses :
          LET host == normalizeIpv4(address)
              device == Device(name, host, port, <<host>>)
          IN discovery' =
                [discovery EXCEPT
                    !.heard = @ + 1,
                    !.udp = IF \/ ~magic \/ name = "" \/ port <= 0
                               \/ host = <<>> \/ ~isAllowedIpv4(host, DefaultDiscoverOptions)
                            THEN @
                            ELSE MapSet(@, HostPort(device), device)]
    /\ UNCHANGED <<server, options, pairingState, now, ttlTimerDue, notified, lastTtl, dir, files,
                   sess, snd, lan>>

\* The timer of discoverViaMdns (lines 205-212).
MdnsDone ==
    /\ discovery.pc = "listening" /\ ~discovery.mdnsDone
    /\ discovery' = [discovery EXCEPT !.mdnsDone = TRUE]
    /\ UNCHANGED <<server, options, pairingState, now, ttlTimerDue, notified, lastTtl, dir, files,
                   sess, snd, lan>>

\* The timer of discoverViaUdp (lines 229-240, 279).
UdpDone ==
    /\ discovery.pc = "listening" /\ ~discovery.udpDone
    /\ discovery' = [discovery EXCEPT !.udpDone = TRUE]
    /\ UNCHANGED <<server, options, pairingState, now, ttlTimerDue, notified, lastTtl, dir, files,
                   sess, snd, lan>>

\* discoverDevices after its await (lines 293-300), on a system with any
\* interfaces.
DiscoverReturn ==
    /\ discovery.pc = "listening" /\ discovery.mdnsDone /\ discovery.udpDone
    /\ \E interfaces \in SUBSET Interfaces :
          /\ Cardinality(interfaces) <= MaxInterfaces
          /\ LET o == DefaultDiscoverOptions
                 devices == mergeDevices(<<MapValues(discovery.mdns), MapValues(discovery.udp)>>)
                 locals == localIpv4Set(interfaces, o)
             IN discovery' =
                   [discovery EXCEPT
                       !.pc = "returned",
                       !.locals = {normalizeIpv4(i.address) : i \in {j \in interfaces : j.family = "IPv4"}},
                       !.returned = IF o.includeSelf THEN devices
                                    ELSE SelectSeq(devices, LAMBDA d : ~isSelfDevice(d, locals))]
    /\ UNCHANGED <<server, options, pairingState, now, ttlTimerDue, notified, lastTtl, dir, files,
                   sess, snd, lan>>

\* ---------------------------------------------------------- specifications

\* The steps of handleIncomingSocket every transfer goes through, and those
\* of a resumed one.
Handler(s) ==
    \/ RecvHeader(s) \/ SelectTemp(s) \/ SelectFinal(s) \/ Mkdir(s)
    \/ Stat(s) \/ Recv(s) \/ Flush(s) \/ Promote(s)

Resume(s) == Digest(s) \/ Seed(s)

Peer(s) == PeerConnect(s) \/ PeerSendHeader(s) \/ PeerSendByte(s) \/ PeerEnd(s)

Sender == SendHeader \/ SendReady \/ SendChunk \/ SendStreamError \/ SendAck

Lan(paths, sizes, shas, codes, bytes, payloads, malformed, connections, concurrent, entries) ==
    [paths |-> paths, sizes |-> sizes, shas |-> shas, codes |-> codes, bytes |-> bytes,
     payloads |-> payloads, malformed |-> malformed, connections |-> connections, concurrent |-> concurrent,
     entries |-> entries]

InitWith(O, L, S) ==
    /\ \E o \in O : \E first \in FirstCodes(o) : Started(o, first)
    /\ lan = L
    /\ snd = S

\* Two peers at once on a receiver without pairing, both announcing the same
\* path and digest.
InitRace ==
    InitWith({o \in ListenOptions : o.pairCode = NoCode /\ ~o.generatePairCode /\ ~o.confirmTransfer},
             Lan({<<EntryPaths[1]>>}, 1..MaxSize, {sha256(<<1, 1>>)}, {NoCode}, {1}, {}, FALSE,
                 MaxSessions, TRUE, <<>>),
             NoSender)
NextRace == \E s \in Sessions : Handler(s) \/ Rm(s) \/ Resume(s) \/ Peer(s) \/ DiskError(s)
SpecRace == InitRace /\ [][NextRace]_vars

\* One peer after another on a receiver without pairing: any header, any
\* payload, resets, disk errors, and the confirmation hook.
InitSolo ==
    InitWith({o \in ListenOptions : o.pairCode = NoCode /\ ~o.generatePairCode},
             Lan({<<EntryPaths[1]>>}, 0..MaxSize, {sha256(<<>>), sha256(<<1, 1>>)}, {NoCode}, {1}, {},
                 TRUE, MaxSessions, FALSE, <<>>),
             NoSender)
NextSolo ==
    \E s \in Sessions :
        Handler(s) \/ Rm(s) \/ Confirm(s) \/ Resume(s) \/ Peer(s) \/ PeerReset(s) \/ DiskError(s)
SpecSolo == InitSolo /\ [][NextSolo]_vars

\* Peers on a receiver of any pairing configuration, with the TTL timer.
InitPair ==
    InitWith({o \in ListenOptions : ~o.confirmTransfer /\ o.pairCode \in {NoCode, "111111"}
                                      /\ (o.pairCode = NoCode => ~o.generatePairCode)},
             Lan({<<EntryPaths[1]>>}, {1}, {sha256(<<1>>)}, {NoCode, "111111", "222222"}, {},
                 {<<1>>, <<2>>}, FALSE,
                 MaxSessions, TRUE, <<>>),
             NoSender)
NextPair == (\E s \in Sessions : Handler(s) \/ Rm(s) \/ PeerBurst(s)) \/ TtlTick \/ Advance
SpecPair == InitPair /\ [][NextPair]_vars

\* A batch of MaxEntries entries sent to a receiver of any pairing
\* configuration, with the TTL timer and disk errors.
InitBatch ==
    \E caller \in {"111111", "222222"} :
        InitWith({o \in ListenOptions : ~o.confirmTransfer /\ o.pairCode \in {NoCode, "111111"}
                                          /\ (o.pairCode = NoCode => ~o.pairCodeTtl)},
                 Lan({}, {}, {}, {}, {}, {}, FALSE, 0, FALSE, [i \in 1..MaxEntries |-> [k \in 1..i |-> 1]]),
                 NewSender(caller))
NextBatch == Sender \/ (\E s \in Sessions : Handler(s) \/ DiskError(s)) \/ TtlTick \/ Advance
SpecBatch == InitBatch /\ [][NextBatch]_vars

\* The file a sender resumes: MaxSize bytes, no two neighbours alike.
Source == [k \in 1..MaxSize |-> 1 + ((k - 1) % MaxByte)]
\* The temp file of the source's digest and the final file at its path.
SourceFinal(source) == resolveOutputPath(<<EntryPaths[1]>>).value
SourceTemp(source) == buildReceiveTempPath(SourceFinal(source), sha256(source))
\* What a path may hold when the receiver starts: nothing (<<>>), or a
\* file of some bytes (<<bytes>>).
SeededFiles == {<<>>} \cup {<<c>> : c \in SeqsUpTo(Bytes, MaxSize)}
Seeded(disk, p, seed) == IF seed = <<>> THEN disk ELSE WithFile(disk, p, seed[1])

\* One file, empty or not, sent to a receiver without pairing whose output
\* directory already holds a temp file of that digest, a file at the final
\* path, both or neither; with disk errors.
InitResume ==
    \E source \in {<<>>, Source} : \E temp \in SeededFiles :
      \E final \in {<<>>, <<Prefix(Source, 1)>>, <<Source>>} :
        /\ \E o \in ListenOptions :
              /\ o.pairCode = NoCode /\ ~o.generatePairCode /\ ~o.confirmTransfer
              /\ StartedOn(o, NoCode,
                           Seeded(Seeded(EmptyDisk, SourceTemp(source), temp),
                                  SourceFinal(source), final))
        /\ lan = Lan({}, {}, {}, {}, {}, {}, FALSE, 0, FALSE, <<source>>)
        /\ snd = NewSender(NoCode)
NextResume == Sender \/ (\E s \in Sessions : Handler(s) \/ Rm(s) \/ Resume(s) \/ DiskError(s))
SpecResume == InitResume /\ [][NextResume]_vars
\* Every step that can be taken is taken in the end.
FairResume == SpecResume /\ WF_vars(NextResume)

\* The relative paths and sha256 strings of headers written to get out of
\* the output directory, or to look as if.
HostilePaths ==
    {<<"x.ext">>,
     <<"..", "/", "x.ext">>,
     <<"..", "\\", "x.ext">>,
     <<"a", "/", "..", "/", "x.ext">>,
     <<"/", "x.ext">>,
     <<"..x">>,
     join(NestedPath)}
HostileSha == <<SlashChar, DotDotChars, SlashChar, DotDotChars, SlashChar, LetterChar>>

\* One peer after another on a receiver without pairing, with such headers
\* and one-byte payloads.
InitPaths ==
    InitWith({o \in ListenOptions : o.pairCode = NoCode /\ ~o.generatePairCode /\ ~o.confirmTransfer},
             Lan(HostilePaths, {1}, {sha256(<<1>>), HostileSha}, {NoCode}, {1}, {}, FALSE,
                 MaxSessions, FALSE, <<>>),
             NoSender)
NextPaths == \E s \in Sessions : Handler(s) \/ Rm(s) \/ Peer(s) \/ DiskError(s)
SpecPaths == InitPaths /\ [][NextPaths]_vars

\* Two peers at once on a receiver without pairing, announcing the same path
\* for two different one-byte files.
InitTwo ==
    InitWith({o \in ListenOptions : o.pairCode = NoCode /\ ~o.generatePairCode /\ ~o.confirmTransfer},
             Lan({<<EntryPaths[1]>>}, {1}, {sha256(<<1>>), sha256(<<2>>)}, {NoCode}, {},
                 {<<1>>, <<2>>}, FALSE, MaxSessions, TRUE, <<>>),
             NoSender)
NextTwo == \E s \in Sessions : Handler(s) \/ Rm(s) \/ PeerBurst(s)
SpecTwo == InitTwo /\ [][NextTwo]_vars

\* The fingerprint strings a caller may pass, and the known-hosts files a
\* sender may find: none, one written by an earlier send, one edited by hand.
FingerprintStrings ==
    {Fingerprint(sha256(c), form) : c \in Certs, form \in {"lower", "colons"}}
    \cup {Fingerprint(sha256(<<1>>), "malformed")}
KnownHostsFiles ==
    {NoKnownHosts}
    \cup {[NoKnownHosts EXCEPT ![e] = Fingerprint(sha256(c), "lower")] :
             e \in {"peer.local", "other.local"}, c \in Certs}
    \cup {[NoKnownHosts EXCEPT !["peer.local"] = Fingerprint(sha256(<<1>>), form)] :
             form \in {"colons", "malformed"}}

\* A batch sent over TLS or not, by the send command or by a call of
\* sendEntries, with any of the trust options, to a receiver without pairing
\* that presents any certificate in each handshake.
InitTls ==
    /\ \E o \in ListenOptions :
          /\ o.pairCode = NoCode /\ ~o.generatePairCode /\ ~o.confirmTransfer
          /\ Started(o, NoCode)
    /\ lan = Lan({}, {}, {}, {}, {}, {}, FALSE, 0, FALSE, [i \in 1..MaxEntries |-> [k \in 1..i |-> 1]])
    /\ \E file \in KnownHostsFiles : \E host \in Hosts :
       \E fingerprint \in FingerprintStrings \cup {NoFingerprint} : \E tofu \in BOOLEAN :
          \/ \E tls \in BOOLEAN :
                snd = [NewSender(NoCode) EXCEPT !.pc = "cli", !.knownHosts = file,
                                                !.opts = Opts(tls, fingerprint, tofu, host)]
          \/ snd = [NewSender(NoCode) EXCEPT !.knownHosts = file,
                                             !.tls = Tls(TRUE, fingerprint, tofu, host)]
NextTls ==
    \/ SendHeader \/ SendReady \/ SendChunk \/ SendAck
    \/ SendCommand \/ SendConnect \/ SendVerify \/ SendKnownHosts \/ SendTrust
    \/ \E s \in Sessions : Handler(s)
SpecTls == InitTls /\ [][NextTls]_vars
\* Every step that can be taken is taken in the end.
FairTls == SpecTls /\ WF_vars(NextTls)

\* One peer after another on a receiver without pairing, each sending its
\* header line in "data" events of any sizes, then a one-byte payload.
InitReader ==
    InitWith({o \in ListenOptions : o.pairCode = NoCode /\ ~o.generatePairCode /\ ~o.confirmTransfer},
             Lan({<<EntryPaths[1]>>}, {1}, {sha256(<<1>>)}, {NoCode}, {1}, {}, FALSE,
                 MaxSessions, FALSE, <<>>),
             NoSender)
NextReader ==
    \E s \in Sessions :
        \/ Handler(s)
        \/ PeerConnect(s) \/ PeerSendPart(s) \/ PeerSendLine(s) \/ PeerSendByte(s) \/ PeerEnd(s)
SpecReader == InitReader /\ [][NextReader]_vars

\* One peer after another, at any pace, on a receiver with a TTL pair code
\* whose stop handle is called at any moment.
InitStop ==
    InitWith({o \in ListenOptions : ~o.confirmTransfer /\ o.pairCode = "111111" /\ o.pairCodeTtl
                                      /\ ~o.rotatePairCodePerTransfer},
             Lan({<<EntryPaths[1]>>}, {1}, {sha256(<<1>>)}, {"111111"}, {1}, {}, FALSE,
                 MaxSessions, FALSE, <<>>),
             NoSender)
NextStop ==
    \/ \E s \in Sessions : Handler(s) \/ Peer(s)
    \/ TtlTick \/ Advance
    \/ Stop \/ StopPublished \/ StopClosed
SpecStop == InitStop /\ [][NextStop]_vars
\* Every step that can be taken is taken in the end.
FairStop == SpecStop /\ WF_vars(NextStop)

\* One file of any size up to MaxSize sent to a receiver without pairing
\* whose output directory already holds a temp file of that digest or none,
\* and which nothing else touches during the transfer.
InitUndisturbed ==
    \E size \in 0..MaxSize : \E temp \in SeededFiles :
        /\ \E o \in ListenOptions :
              /\ o.pairCode = NoCode /\ ~o.generatePairCode /\ ~o.confirmTransfer
              /\ StartedOn(o, NoCode, Seeded(EmptyDisk, SourceTemp(Prefix(Source, size)), temp))
        /\ lan = Lan({}, {}, {}, {}, {}, {}, FALSE, 0, FALSE, <<Prefix(Source, size)>>)
        /\ snd = NewSender(NoCode)
NextUndisturbed ==
    \/ SendHeader \/ SendReady \/ SendChunk \/ SendAck
    \/ \E s \in Sessions : Handler(s) \/ Resume(s)
SpecUndisturbed == InitUndisturbed /\ [][NextUndisturbed]_vars

\* One file of any size up to MaxSize sent to this program's receiver or to
\* a server that answers with any lines and may drop the connection.
InitServers ==
    \E size \in 0..MaxSize :
        InitWith({o \in ListenOptions : o.pairCode = NoCode /\ ~o.generatePairCode /\ ~o.confirmTransfer},
                 Lan({}, {}, {}, {}, {}, {}, FALSE, 0, FALSE, <<Prefix(Source, size)>>),
                 NewSender(NoCode))
NextServers ==
    \/ Sender \/ SendHeaderElsewhere
    \/ \E s \in Sessions : Handler(s) \/ ServerReplies(s) \/ ServerDestroys(s)
SpecServers == InitServers /\ [][NextServers]_vars

\* One peer after another on a receiver that asks its confirmation hook, with
\* or without a fixed pair code: headers of a plain path, of a path in a
\* directory and of a path that leads upwards, malformed headers, any code.
InitConfirm ==
    InitWith({o \in ListenOptions : o.confirmTransfer /\ ~o.generatePairCode
                                      /\ o.pairCode \in {NoCode, "111111"}},
             Lan({<<EntryPaths[1]>>, join(NestedPath), <<"..", "/", "x.ext">>}, {1}, {sha256(<<1>>)},
                 {NoCode, "111111", "222222"}, Bytes, {}, TRUE, MaxSessions, FALSE, <<>>),
             NoSender)
NextConfirm == \E s \in Sessions : Handler(s) \/ Rm(s) \/ Confirm(s) \/ Peer(s)
SpecConfirm == InitConfirm /\ [][NextConfirm]_vars

\* startReceiver called with any options, on a port that is free or taken;
\* then the TTL timer, and the stop handle if there is one.
InitStart ==
    /\ options \in StartOptions
    /\ discovery = NoDiscovery
    /\ server = NotStarted
    /\ pairingState = [currentCode |-> options.pairCode, previousCode |-> NoCode,
                       previousCodeValidUntilMs |-> 0, activeTransfers |-> 0]
    /\ now = 0
    /\ ttlTimerDue = -1
    /\ notified = [count |-> 0, code |-> NoCode, reason |-> ""]
    /\ lastTtl = [old |-> NoCode, at |-> 0, until |-> 0, live |-> FALSE, before |-> NoCode]
    /\ dir = EmptyDisk.dir
    /\ files = EmptyDisk.files
    /\ sess = [s \in Sessions |-> NewSession]
    /\ lan = Lan({}, {}, {}, {}, {}, {}, FALSE, 0, FALSE, <<>>)
    /\ snd = NoSender
NextStart ==
    \/ StartReceiver \/ Listen \/ ListenError
    \/ TtlTick \/ Advance
    \/ Stop \/ StopPublished \/ StopClosed
SpecStart == InitStart /\ [][NextStart]_vars

\* The source sent to a receiver without pairing whose output directory
\* holds what an interrupted session may have left at the temp path: nothing,
\* or a file of any bytes. The first attempt may be interrupted; the caller
\* retries a failed attempt.
InitRetry ==
    \E temp \in SeededFiles : \E final \in {<<>>, <<Prefix(Source, 1)>>} :
        /\ \E o \in ListenOptions :
              /\ o.pairCode = NoCode /\ ~o.generatePairCode /\ ~o.confirmTransfer
              /\ StartedOn(o, NoCode,
                           Seeded(Seeded(EmptyDisk, SourceTemp(Source), temp),
                                  SourceFinal(Source), final))
        /\ lan = Lan({}, {}, {}, {}, {}, {}, FALSE, 0, FALSE, <<Source>>)
        /\ snd = NewSender(NoCode)
NextRetry ==
    \/ SendHeader \/ SendReady \/ SendChunk \/ SendAck \/ SendInterrupted \/ SendRetry
    \/ \E s \in Sessions : Handler(s) \/ Rm(s) \/ Resume(s)
SpecRetry == InitRetry /\ [][NextRetry]_vars
\* Every step that can be taken is taken in the end: the event loop runs the
\* handlers, and the caller does retry.
FairRetry == SpecRetry /\ WF_vars(NextRetry)

\* A batch sent over TLS with trust on first use while another send, to
\* other.local, verifies its server against the same known-hosts file.
InitTofu ==
    /\ \E o \in ListenOptions :
          /\ o.pairCode = NoCode /\ ~o.generatePairCode /\ ~o.confirmTransfer
          /\ Started(o, NoCode)
    /\ lan = Lan({}, {}, {}, {}, {}, {}, FALSE, 0, FALSE, [i \in 1..MaxEntries |-> [k \in 1..i |-> 1]])
    /\ \E file \in KnownHostsFiles : \E host \in Hosts :
          snd = [NewSender(NoCode) EXCEPT !.knownHosts = file,
                                         !.tls = Tls(TRUE, NoFingerprint, TRUE, host),
                                         !.other = [NoVerifier EXCEPT !.pc = "knownHosts"]]
NextTofu ==
    \/ SendReady \/ SendChunk \/ SendAck
    \/ SendConnect \/ SendVerify \/ SendKnownHosts \/ SendTrust
    \/ OtherKnownHosts \/ OtherTrust
    \/ \E s \in Sessions : Handler(s)
SpecTofu == InitTofu /\ [][NextTofu]_vars

\* One peer after another on a receiver without pairing, each sending its
\* header, a newline and its payload in "data" events that cut the stream
\* anywhere.
InitStream ==
    InitWith({o \in ListenOptions : o.pairCode = NoCode /\ ~o.generatePairCode /\ ~o.confirmTransfer},
             Lan({}, {}, {}, {}, {}, {}, FALSE, MaxSessions, FALSE, <<>>),
             NoSender)
NextStream ==
    \E s \in Sessions : Handler(s) \/ Resume(s) \/ PeerOpens(s) \/ PeerSendData(s) \/ PeerEnd(s)
SpecStream == InitStream /\ [][NextStream]_vars

\* A call of discoverDevices without options, on a network that announces any
\* services and answers the probe with any datagrams.
InitDiscover ==
    InitWith({o \in ListenOptions : o.pairCode = NoCode /\ ~o.generatePairCode /\ ~o.confirmTransfer
                                      /\ ~o.pairCodeTtl /\ ~o.rotatePairCodePerTransfer},
             Lan({}, {}, {}, {}, {}, {}, FALSE, 0, FALSE, <<>>),
             NoSender)
NextDiscover == DiscoverDevices \/ MdnsService \/ UdpMessage \/ MdnsDone \/ UdpDone \/ DiscoverReturn
SpecDiscover == InitDiscover /\ [][NextDiscover]_vars

\* ------------------------------------------------------------------ claims

\* Session s has written ack{ok:true}.
AckedOk(s) == \E i \in 1..Len(sess[s].out) : sess[s].out[i].type = "ack" /\ sess[s].out[i].ok
\* The ok-ack of session s.
OkAck(s) == sess[s].out[Len(sess[s].out)]
\* Session s writes ack{ok:true} in this step.
EmitsAckOk(s) == ~AckedOk(s) /\ AckedOk(s)'
\* The bytes of the file at path p.
Content(p) == files[dir[p]]

\* C1: whenever a session writes ack{ok:true}, the file it promoted holds
\* bytes whose SHA-256 is the header's sha256.
C1_AckOnlyIfDigestMatches ==
    [][\A s \in Sessions :
          EmitsAckOk(s) =>
             /\ pathExists(dir', sess'[s].promoted)
             /\ sha256(Content(sess[s].promoted)') = sess'[s].header.sha256]_vars

\* C2: whenever a session writes ack{ok:true}, its counter equals fileSize,
\* the ack reports fileSize and the promoted file has exactly that size.
C2_AckOnlyAtFullSize ==
    [][\A s \in Sessions :
          EmitsAckOk(s) =>
             /\ sess'[s].received = sess'[s].header.fileSize
             /\ OkAck(s)'.receivedBytes = sess'[s].header.fileSize
             /\ Len(Content(sess[s].promoted)') = sess'[s].header.fileSize]_vars

\* C1: a session has written ack{ok:true} and the file it promoted does not
\* hash to the header's sha256.
C1_MismatchInput ==
    \E s \in Sessions :
        /\ AckedOk(s)
        /\ sha256(Content(sess[s].promoted)) # sess[s].header.sha256

\* ready{ok:true} is among the frames of session record r.
ReadyOkWritten(r) == \E i \in 1..Len(r.out) : r.out[i].type = "ready" /\ r.out[i].ok

\* The frames a session has written are in protocol order.
InOrder(r) ==
    /\ Len(r.out) <= 2
    /\ Len(r.out) >= 1 => r.out[1].type = "ready"
    /\ ReadyOkWritten(r) => r.header.type = "header" /\ r.header.valid
    /\ Len(r.out) = 2 => r.out[1].ok /\ r.out[2].type = "ack"
    /\ r.received > r.resumedFrom => Len(r.out) >= 1 /\ r.out[1].ok

\* C3: the frames of a session are ordered header, ready, payload, ack; and
\* ack{ok:true} is written only when the payload is complete, the file
\* stream is closed, the digest equals the header's and the file is promoted.
C3_FrameOrder ==
    /\ \A s \in Sessions : InOrder(sess[s])
    /\ \A s \in Sessions :
          AckedOk(s) =>
             /\ sess[s].received = sess[s].header.fileSize
             /\ sess[s].stream \in {"none", "closed"}
             /\ sess[s].fd = 0
             /\ hasherDigest(sess[s].hasher) = sess[s].header.sha256
             /\ sess[s].promoted = sess[s].targetPath
             /\ sess[s].phase = "done"

\* C3: a session received payload, closed its stream and wrote ack{ok:true}.
C3_AckAfterPayload ==
    \E s \in Sessions :
        AckedOk(s) /\ sess[s].received > sess[s].resumedFrom /\ sess[s].stream = "closed"

\* Session s writes a failure frame in this step.
IsFailure(frame) == ~frame.ok
EmitsFailure(s) ==
    /\ Len(sess'[s].out) = Len(sess[s].out) + 1
    /\ IsFailure(sess'[s].out[Len(sess'[s].out)])

\* C4: a failure frame is ready{ok:false, offset:0, message} when no
\* ready{ok:true} was written before it and ack{ok:false, message} otherwise.
\* Once a failure frame is written the write side is closed, and no frame
\* follows it.
C4_FailureFrameByPhase ==
    [][\A s \in Sessions :
          /\ EmitsFailure(s) =>
                LET frame == sess'[s].out[Len(sess'[s].out)]
                IN /\ frame.message # ""
                   /\ IF ReadyOkWritten(sess[s])
                      THEN frame.type = "ack"
                      ELSE frame.type = "ready" /\ frame.offset = 0
                   /\ ~sess'[s].writable
          /\ (\E i \in 1..Len(sess[s].out) : IsFailure(sess[s].out[i])) =>
                sess'[s].out = sess[s].out /\ ~sess'[s].writable]_vars

\* C4: one session failed before ready{ok:true}, another after it.
C4_FailureBeforeAndAfterReady ==
    /\ \E s \in Sessions : Len(sess[s].out) = 1 /\ IsFailure(sess[s].out[1])
    /\ \E s \in Sessions : Len(sess[s].out) = 2 /\ IsFailure(sess[s].out[2])

\* The handler of session s decides on the admission of a well-formed header
\* in this step.
Decides(s) ==
    /\ sess[s].pc = "header" /\ sess'[s].pc # "header"
    /\ ~sess[s].error /\ sess[s].hasLine
    /\ sess[s].line.type = "header" /\ sess[s].line.valid
Presented(s) == sess[s].line.pairCode
Admits(s) == sess'[s].admitted /\ sess'[s].pc = "selectTemp" /\ sess'[s].out = <<>>
Rejects(s) ==
    /\ ~sess'[s].admitted /\ sess'[s].pc = "closed"
    /\ sess'[s].out = <<ReadyMessage(FALSE, 0, "pair code mismatch", NoPath)>>

\* C5: a header is admitted iff the current code is null, or its pair code
\* is the current code, or its pair code is the non-null previous code and
\* now <= previousCodeValidUntilMs; any other header is answered with
\* ready{ok:false, "pair code mismatch"}, and a session that was not admitted
\* never writes ready{ok:true}.
C5_Admission ==
    [][\A s \in Sessions :
          /\ Decides(s) =>
                IF \/ pairingState.currentCode = NoCode
                   \/ Presented(s) = pairingState.currentCode
                   \/ /\ pairingState.previousCode # NoCode
                      /\ Presented(s) = pairingState.previousCode
                      /\ now <= pairingState.previousCodeValidUntilMs
                THEN Admits(s)
                ELSE Rejects(s)
          /\ ~sess'[s].admitted => ~ReadyOkWritten(sess'[s])]_vars

\* C5: a header was admitted with the previous code at the last instant of
\* the grace window, and another header was rejected.
C5_AdmittedAtGraceEnd ==
    /\ \E s \in Sessions :
          /\ sess[s].pc = "selectTemp"
          /\ sess[s].required # NoCode
          /\ sess[s].admittedWith = pairingState.previousCode
          /\ sess[s].admittedWith # pairingState.currentCode
          /\ now = pairingState.previousCodeValidUntilMs
    /\ \E s \in Sessions : sess[s].message = "pair code mismatch"

\* The TTL timer's callback runs in this step; it rotates in this step.
TtlFires == ttlTimerDue' # ttlTimerDue
TtlRotates == TtlFires /\ notified' # notified
\* Session s is between its admission and its terminal frame.
InFlight(s) == sess[s].admitted /\ sess[s].pc # "closed"

\* C6: a TTL tick with activeTransfers > 0 changes neither the pairing state
\* nor notifies; and no TTL rotation happens while a session is between its
\* admission and its terminal ack or failure frame.
C6_TickSkippedWhileActive ==
    [][/\ TtlFires /\ pairingState.activeTransfers > 0 => UNCHANGED <<pairingState, notified>>
       /\ TtlRotates => \A s \in Sessions : ~InFlight(s)]_vars

\* C6: the timer fired at this instant without rotating while a session was
\* about to promote its file.
C6_TickSkipped ==
    /\ now >= TtlMs
    /\ ttlTimerDue = now + TtlMs
    /\ lastTtl.at # now
    /\ \E s \in Sessions : InFlight(s) /\ sess[s].pc = "promote"

\* The TTL tick rotates with no transfer active: the new pairing state.
TtlRotation ==
    TtlFires /\ pairingState.activeTransfers = 0 =>
        /\ pairingState'.currentCode \in Codes
        /\ pairingState'.previousCode = pairingState.currentCode
        /\ pairingState'.previousCodeValidUntilMs = now + TtlMs
        /\ notified' = Notify(notified, pairingState'.currentCode, "ttl")

\* C7 as stated: after a TTL rotation the retired code is admitted at any
\* time up to previousCodeValidUntilMs, and is rejected once the grace window
\* has expired or a further TTL rotation has replaced previousCode (a retired
\* code that the generator made the current code again is left aside).
C7_GraceAsStated ==
    [][/\ TtlRotation
       /\ \A s \in Sessions :
             /\ Decides(s) /\ Presented(s) # NoCode /\ Presented(s) = lastTtl.old
                            /\ now <= lastTtl.until
                   => Admits(s)
             /\ Decides(s) /\ Presented(s) # NoCode /\ Presented(s) = lastTtl.old
                            /\ now > lastTtl.until
                            /\ Presented(s) # pairingState.currentCode
                   => Rejects(s)
             /\ Decides(s) /\ Presented(s) # NoCode /\ Presented(s) = lastTtl.before
                            /\ Presented(s) # lastTtl.old
                            /\ Presented(s) # pairingState.currentCode
                   => Rejects(s)]_vars

\* C7, amended: after a TTL rotation the retired code is admitted at any
\* time up to previousCodeValidUntilMs unless a per-transfer rotation has
\* cleared previousCode since; it is rejected once the grace window has
\* expired, or a further TTL rotation has replaced previousCode, or a
\* per-transfer rotation has cleared it, unless it is the current code again.
C7_Grace ==
    [][/\ TtlRotation
       /\ \A s \in Sessions :
             /\ Decides(s) /\ Presented(s) # NoCode /\ Presented(s) = lastTtl.old
                            /\ now <= lastTtl.until /\ lastTtl.live
                   => Admits(s)
             /\ Decides(s) /\ Presented(s) # NoCode /\ Presented(s) = lastTtl.old
                            /\ (now > lastTtl.until \/ ~lastTtl.live)
                            /\ Presented(s) # pairingState.currentCode
                   => Rejects(s)
             /\ Decides(s) /\ Presented(s) # NoCode /\ Presented(s) = lastTtl.before
                            /\ Presented(s) # lastTtl.old
                            /\ Presented(s) # pairingState.currentCode
                   => Rejects(s)]_vars

\* C7: the retired code was admitted inside the grace window, and was
\* rejected after it.
C7_RetiredCodeAdmittedThenRejected ==
    /\ lastTtl.live /\ lastTtl.old # pairingState.currentCode
    /\ \E s \in Sessions :
          /\ sess[s].admitted /\ sess[s].admittedWith = lastTtl.old
          /\ sess[s].required # lastTtl.old
    /\ \E s \in Sessions :
          /\ sess[s].message = "pair code mismatch"
          /\ sess[s].header.pairCode = lastTtl.old
          /\ sess[s].pc = "closed"
    /\ now > lastTtl.until

\* C8: without per-transfer rotation, an ack{ok:true} of a receiver that
\* requires a pair code carries the current code as nextPairCode, whichever
\* code admitted the sender; without a pair code nextPairCode is absent.
C8_NextPairCodeIsCurrent ==
    [][\A s \in Sessions :
          EmitsAckOk(s) /\ ~options.rotatePairCodePerTransfer =>
             OkAck(s)'.nextPairCode = pairingState'.currentCode]_vars

\* C8: without per-transfer rotation, a sender admitted with another code
\* than the current one was told the current one in its ack.
C8_AckAfterGraceAdmission ==
    /\ ~options.rotatePairCodePerTransfer
    /\ \E s \in Sessions :
          /\ AckedOk(s)
          /\ sess[s].admittedWith # OkAck(s).nextPairCode
          /\ OkAck(s).nextPairCode # NoCode

\* The pairing codes.
PairCodes(ps) == <<ps.currentCode, ps.previousCode, ps.previousCodeValidUntilMs>>
\* Session s ends in this step without ack{ok:true}.
EndsFailed(s) == sess[s].pc # "closed" /\ sess'[s].pc = "closed" /\ ~AckedOk(s)'

\* C9: under per-transfer rotation a session that completes rotates once
\* (new current code, previous code null, notified with reason "once",
\* ack.nextPairCode the new current code), only such a session rotates, and a
\* session that fails leaves the pairing codes unchanged.
C9_RotatesOncePerSuccess ==
    [][options.rotatePairCodePerTransfer =>
         \A s \in Sessions :
            /\ EmitsAckOk(s) =>
                  /\ pairingState'.currentCode \in Codes
                  /\ pairingState'.previousCode = NoCode
                  /\ notified' = Notify(notified, pairingState'.currentCode, "once")
                  /\ OkAck(s)'.nextPairCode = pairingState'.currentCode
                  /\ sess'[s].rotated = 1
            /\ EndsFailed(s) => PairCodes(pairingState') = PairCodes(pairingState)]_vars

\* C9: a session ended with ack{ok:false} after it promoted its file and
\* rotated the code.
C9_FailedButRotated ==
    \E s \in Sessions :
        /\ sess[s].pc = "closed" /\ ~AckedOk(s)
        /\ sess[s].rotated = 1
        /\ sess[s].promoted # NoPath

\* C10: the connection of entry i+1 is opened only after the ack of entry i
\* was read; its header carries ack_i.nextPairCode if present and else the
\* pair code of entry i; the first header carries the caller's pair code.
C10_BatchChain ==
    /\ Len(snd.headers) <= Len(snd.results) + 1
    /\ \A s \in Sessions : sess[s].peer = "sender" /\ s # snd.session => sess[s].pc = "closed"
    /\ Len(snd.headers) >= 1 => snd.headers[1].pairCode = snd.pairCode
    /\ \A i \in 1..(Len(snd.headers) - 1) :
          /\ snd.results[i].type = "ack" /\ snd.results[i].ok
          /\ snd.headers[i + 1].pairCode =
                IF snd.results[i].nextPairCode # NoCode
                THEN snd.results[i].nextPairCode
                ELSE snd.headers[i].pairCode

\* C10: a batch of two entries completed, the second with another pair code
\* than the first.
C10_ChainedAfterRotation ==
    /\ Len(snd.headers) = 2
    /\ snd.headers[2].pairCode # snd.headers[1].pairCode
    /\ snd.pc = "done"

\* The frame the sender's sendFile is waiting for has arrived and is a
\* failure frame.
FailureAwaited ==
    /\ snd.pc \in {"ready", "ack"}
    /\ LET n == IF snd.pc = "ready" THEN 1 ELSE 2
       IN Len(sess[snd.session].out) >= n /\ IsFailure(sess[snd.session].out[n])
AwaitedFrame == sess[snd.session].out[IF snd.pc = "ready" THEN 1 ELSE 2]

\* C11: a batch aborts at the first entry whose send fails: sendEntries
\* fails with that entry's error (the message of the receiver's failure
\* frame when there is one), the failed entry's header is the last one
\* written, and afterwards the sender does nothing more and opens no
\* connection.
C11_BatchAborts ==
    [][/\ FailureAwaited /\ snd' # snd =>
             snd'.pc = "failed" /\ snd'.error = AwaitedFrame.message
       /\ snd'.pc = "failed" =>
             /\ snd'.error # ""
             /\ Len(snd'.headers) = snd'.index
             /\ Len(snd'.results) = snd'.index - 1
       /\ snd.pc = "failed" =>
             /\ snd' = snd
             /\ \A s \in Sessions : sess[s].pc = "idle" => sess'[s].pc = "idle"]_vars

\* C11: the first entry of a batch of several failed with the receiver's
\* message, and the connection of the second was never opened.
C11_AbortedAtFirstEntry ==
    /\ snd.pc = "failed" /\ snd.index = 1 /\ Len(lan.entries) > 1
    /\ Len(snd.headers) = 1
    /\ sess[snd.session].pc = "closed"
    /\ Len(sess[snd.session].out) >= 1
    /\ snd.error = sess[snd.session].out[Len(sess[snd.session].out)].message
    /\ \E s \in Sessions : sess[s].pc = "idle"

\* Session s writes ready{ok:true} in this step; its ready frame.
WritesReadyOk(s) == ~ReadyOkWritten(sess[s]) /\ ReadyOkWritten(sess'[s])
ReadyOf(s) == sess[s].out[1]
\* The target path of session s's header: output_dir/relativePath.
Target(s) == resolveOutputPath(sess[s].header.relativePath).value
\* The bytes of the file the sender is sending or has sent last.
Sending == lan.entries[Len(snd.headers)]
\* The file at path p holds exactly the first k bytes of content.
HoldsPrefix(p, content, k) ==
    /\ dir[p] > 0
    /\ Len(Content(p)) = k
    /\ Content(p) = Prefix(content, k)

\* C12: when the file at the target path of header.relativePath holds the
\* first k bytes of the source, 0 < k < fileSize, the send is resumed:
\* ready.offset = k, ack.resumedFrom = k, and after the ack the file at that
\* path is the source.
C12_ResumesFromTargetFile ==
    [][\A s \in Sessions : \A k \in 1..(MaxSize - 1) :
          /\ s = snd.session
          /\ k < sess[s].header.fileSize
          /\ HoldsPrefix(Target(s), Sending, k)
          => /\ WritesReadyOk(s) => ReadyOf(s)'.offset = k
             /\ EmitsAckOk(s) =>
                   /\ OkAck(s)'.resumedFrom = k
                   /\ sess'[s].promoted = Target(s)
                   /\ Content(Target(s))' = Sending]_vars

\* C12: the target path still holds the first byte of the source, and the
\* send, answered with offset 0, was saved whole beside it.
C12_SavedBesideTarget ==
    \E s \in Sessions :
        /\ AckedOk(s) /\ OkAck(s).resumedFrom = 0
        /\ sess[s].header.fileSize = MaxSize
        /\ HoldsPrefix(Target(s), Sending, 1)
        /\ sess[s].promoted = duplicatePathWithIndex(Target(s), 1)
        /\ Content(sess[s].promoted) = Sending

\* The temp file of session s, where the operating system finds it.
TempOf(s) == Resolved(dir, sess[s].tempPath)

\* C13: when the session's temp file holds exactly the first k bytes of the
\* source, 0 <= k <= fileSize (or there is no temp file, k = 0), the
\* receiver answers ready.offset = k; and a send that completes leaves a
\* final file that is the source, with ack.resumedFrom = ready.offset and
\* exactly the source's bytes from that offset on written to the socket.
C13_ResumeIdempotence ==
    [][\A s \in Sessions :
          s = snd.session =>
             /\ \A k \in 0..MaxSize :
                   /\ WritesReadyOk(s)
                   /\ k <= sess[s].header.fileSize
                   /\ \/ HoldsPrefix(TempOf(s), Sending, k)
                      \/ k = 0 /\ ~pathExists(dir, TempOf(s))
                   => ReadyOf(s)'.offset = k /\ sess'[s].resumedFrom = k
             /\ /\ EmitsAckOk(s)
                /\ \/ sess[s].found = <<>>
                   \/ \E k \in 0..Len(Sending) : sess[s].found = <<Prefix(Sending, k)>>
                =>
                   /\ OkAck(s)'.resumedFrom = ReadyOf(s).offset
                   /\ OkAck(s)'.receivedBytes = Len(Sending)
                   /\ files'[dir'[sess'[s].promoted]] = Sending
                   /\ snd.wire = SubSeq(Sending, ReadyOf(s).offset + 1, Len(Sending))]_vars

\* C13: a send was resumed from a temp file that held a proper part of the
\* source and completed: only the rest travelled, and the final file is the
\* source.
C13_ResumedMidway ==
    \E s \in Sessions :
        /\ AckedOk(s)
        /\ OkAck(s).resumedFrom > 0 /\ OkAck(s).resumedFrom < Len(Sending)
        /\ Len(snd.wire) = Len(Sending) - OkAck(s).resumedFrom
        /\ Content(sess[s].promoted) = Sending

\* The handler of session s returns in this step.
Returns(s) == sess[s].pc # "closed" /\ sess'[s].pc = "closed"
\* The header of session s announces the empty file.
EmptyFile(s) == sess[s].header.fileSize = 0 /\ sess[s].header.sha256 = sha256(<<>>)

\* C14: for a header with fileSize = 0 and the SHA-256 of the empty string,
\* with no temp and no final file for its path in the output directory, the
\* receiver replies ready{ok:true, offset:0}, then ack{ok:true,
\* receivedBytes:0}, and an empty file exists at the final path.
C14_ZeroByteCompletes ==
    [][\A s \in Sessions :
          /\ /\ WritesReadyOk(s) /\ EmptyFile(s)
             /\ ~pathExists(dir, TempOf(s)) /\ ~pathExists(dir, Target(s))
             => ReadyOf(s)'.offset = 0
          /\ /\ Returns(s) /\ EmptyFile(s) /\ ReadyOkWritten(sess[s]) /\ ~sess[s].error
             /\ sess[s].found = <<>> /\ sess[s].targetPath = Target(s)
             => /\ AckedOk(s)'
                /\ OkAck(s)'.receivedBytes = 0
                /\ dir'[Target(s)] > 0
                /\ files'[dir'[Target(s)]] = <<>>]_vars

\* C14: the empty file was announced to an empty output directory and
\* answered with ready{ok:true, offset:0} and then with ack{ok:false}; there
\* is no file at the final path.
C14_ZeroByteFails ==
    \E s \in Sessions :
        /\ sess[s].pc = "closed" /\ EmptyFile(s)
        /\ Len(sess[s].out) = 2
        /\ sess[s].out[1] = ReadyMessage(TRUE, 0, "", Target(s))
        /\ sess[s].out[2] = AckFailMessage("temporary receive file is missing")
        /\ \A p \in AllPaths : dir[p] = 0

\* The temp file of session s has the announced size, and the announced
\* digest or another one.
CompleteTemp(s) ==
    /\ dir[TempOf(s)] > 0
    /\ Len(Content(TempOf(s))) = sess[s].header.fileSize
    /\ sha256(Content(TempOf(s))) = sess[s].header.sha256
StaleTemp(s) ==
    /\ dir[TempOf(s)] > 0
    /\ Len(Content(TempOf(s))) = sess[s].header.fileSize
    /\ sha256(Content(TempOf(s))) # sess[s].header.sha256

\* C15: when the temp file has size fileSize and its SHA-256 is
\* header.sha256, the receiver replies ready{ok:true, offset:fileSize} and
\* opens no stream; the sender then writes no payload byte and half-closes;
\* and the receiver promotes the file and returns with ack{ok:true,
\* resumedFrom:fileSize}. A temp file of that size with another digest gives
\* offset 0.
C15_CompleteTempIsPromoted ==
    [][\A s \in Sessions :
          s = snd.session =>
             /\ WritesReadyOk(s) /\ CompleteTemp(s) =>
                   /\ ReadyOf(s)'.offset = sess[s].header.fileSize
                   /\ sess'[s].stream = "none"
             /\ WritesReadyOk(s) /\ StaleTemp(s) => ReadyOf(s)'.offset = 0
             /\ /\ ReadyOkWritten(sess[s])
                /\ ReadyOf(s).offset = sess[s].header.fileSize
                /\ snd.pc = "ready" /\ snd'.pc # "ready"
                => snd'.pc = "ack" /\ snd'.wire = <<>> /\ sess'[s].ended
             /\ /\ Returns(s) /\ ReadyOkWritten(sess[s])
                /\ ReadyOf(s).offset = sess[s].header.fileSize
                /\ sess[s].found = <<Sending>>
                => /\ AckedOk(s)'
                   /\ OkAck(s)'.resumedFrom = sess[s].header.fileSize
                   /\ snd.wire = <<>>
                   /\ sess'[s].promoted = sess[s].targetPath
                   /\ files'[dir'[sess'[s].promoted]] = Sending
                   /\ dir'[TempOf(s)] = 0]_vars

\* C15: a non-empty file whose complete temp file was found was acknowledged
\* without a payload byte on the wire; the sender has read the ack.
C15_AckedWithoutPayload ==
    \E s \in Sessions :
        /\ AckedOk(s) /\ sess[s].header.fileSize = MaxSize
        /\ OkAck(s).resumedFrom = MaxSize
        /\ sess[s].stream = "none"
        /\ snd.wire = <<>> /\ snd.pc = "done"
        /\ Content(sess[s].promoted) = Source

\* A resolved path names a strict descendant of the output directory.
Inside(p) == Len(p.rel) > 0 /\ \A i \in 1..Len(p.rel) : p.rel[i] # ".."
\* The path string has a ".." segment; it starts with "/".
HasDotDot(relativePath) == \E i \in 1..Len(relativePath) : relativePath[i] = ".."
HasAbsolutePrefix(relativePath) == Len(relativePath) > 0 /\ relativePath[1] = "/"
\* Read from left to right with "\" as "/", the path string leads above the
\* directory it starts from: up to some segment there are more ".." segments
\* than names.
Climbs(relativePath) ==
    LET segments == split(replaceBackslashes(relativePath))
    IN \E n \in 1..Len(segments) :
          Cardinality({i \in 1..n : segments[i] = ".."})
             > Cardinality({i \in 1..n : segments[i] \notin {"..", "."}})
\* Session s is rejected in this step with ready{ok:false, message}, and
\* the step leaves the output directory as it was.
RejectedWith(s, message) ==
    /\ sess'[s].pc = "closed"
    /\ sess'[s].out = <<ReadyMessage(FALSE, 0, message, NoPath)>>
    /\ sess'[s].targetPath = NoPath /\ sess'[s].stream = "none" /\ sess'[s].received = 0
    /\ UNCHANGED <<dir, files>>

C17_WritesStayInside ==
    /\ \A p \in AllPaths : dir[p] # 0 => Inside(p)
    /\ \A s \in Sessions :
          /\ sess[s].stream = "open" => Inside(TempOf(s))
          /\ sess[s].promoted # NoPath => Inside(sess[s].promoted)
          /\ sess[s].targetPath # NoPath => Inside(sess[s].targetPath)

\* C17: a session whose header was accepted with a target path inside the
\* output directory has its write stream open on a file outside of it.
C17_TempFileOutside ==
    \E s \in Sessions :
        /\ sess[s].stream = "open" /\ sess[s].pc = "recv"
        /\ ReadyOkWritten(sess[s])
        /\ Inside(sess[s].targetPath)
        /\ ~Inside(TempOf(s))
        /\ dir[TempOf(s)] > 0

\* selectReceivePaths of session s returns in this step.
Selects(s) == sess[s].pc \in {"selectTemp", "selectFinal"} /\ sess'[s].pc = "mkdir"
\* Candidate i of session s: stem(i).ext and its temp file.
FinalAt(s, i) == duplicatePathWithIndex(Target(s), i)
TempAt(s, i) == Resolved(dir, buildReceiveTempPath(FinalAt(s, i), sess[s].header.sha256))

\* C18: the receiver picks the smallest index i such that the temp file of
\* stem(i).ext tagged with header.sha256 exists or stem(i).ext does not
\* exist; the selected final path names an existing file only if its temp
\* file exists; and a session that selected x(i).ext, i > 0, leaves x.ext as
\* it is and saves its file as x(i).ext.
C18_DuplicateAwareSelection ==
    [][\A s \in Sessions :
          /\ Selects(s) =>
                \E i \in 0..(MaxDuplicate - 1) :
                   /\ sess'[s].targetPath = FinalAt(s, i)
                   /\ sess'[s].tempPath = buildReceiveTempPath(FinalAt(s, i), sess[s].header.sha256)
                   /\ pathExists(dir, TempAt(s, i)) \/ ~pathExists(dir, FinalAt(s, i))
                   /\ \A j \in 0..(i - 1) :
                         ~pathExists(dir, TempAt(s, j)) /\ pathExists(dir, FinalAt(s, j))
          /\ sess[s].targetPath # NoPath /\ sess[s].targetPath.idx > 0 =>
                /\ dir'[Target(s)] = dir[Target(s)]
                /\ files'[dir[Target(s)]] = files[dir[Target(s)]]
                /\ EmitsAckOk(s) => sess'[s].promoted = sess[s].targetPath]_vars

\* C18: with x.ext present and no matching temp file, the file was saved as
\* x(1).ext, and x.ext is still another file.
C18_SavedAsDuplicate ==
    \E s \in Sessions :
        /\ AckedOk(s)
        /\ sess[s].promoted = duplicatePathWithIndex(Target(s), 1)
        /\ dir[Target(s)] > 0 /\ dir[sess[s].promoted] > 0
        /\ dir[Target(s)] # dir[sess[s].promoted]
        /\ Content(Target(s)) = Source /\ Content(sess[s].promoted) = Sending

\* promoteReceivedFile of session s renames its temp file in this step.
Promotes(s) == sess[s].promoted = NoPath /\ sess'[s].promoted # NoPath

\* C19: a promotion never replaces a file that exists at a final path: the
\* path a session promotes to held nothing before, and every final file that
\* existed before the promotion is still the same file after it.
C19_PromotionNeverReplaces ==
    [][\A s \in Sessions :
          Promotes(s) =>
             /\ dir[sess'[s].promoted] = 0
             /\ \A p \in AllPaths : p.tag = NoTag /\ dir[p] > 0 => dir'[p] = dir[p]]_vars

\* C19: two sessions for the same path and different files both got
\* ack{ok:true} with the same saved path, where only one of the files is.
C19_OneFileLost ==
    \E s, q \in Sessions :
        /\ s # q /\ AckedOk(s) /\ AckedOk(q)
        /\ sess[s].header.sha256 # sess[q].header.sha256
        /\ OkAck(s).savedPath = OkAck(q).savedPath
        /\ sha256(Content(sess[q].promoted)) = sess[q].header.sha256
        /\ \A p \in AllPaths : dir[p] > 0 => p = sess[q].promoted

\* The confirmation hook of session s is called in this step; it settles in
\* this step.
Asks(s) == sess'[s].asked = sess[s].asked + 1
Settles(s) == sess[s].pc = "confirm" /\ sess'[s].pc # "confirm"

\* C20: with a confirmation hook installed, it is called exactly once per
\* session that gets that far, after the header was validated and admitted
\* and before any frame is written, and nothing is written until it has
\* settled; when it refuses, the receiver writes ready{ok:false} with the
\* hook's message, or "receiver rejected transfer" without one (written to
\* the socket unless the connection was reset meanwhile), and has opened no
\* temp file and taken no payload; without a hook the session goes on as
\* accepted.
C20_ConfirmationHook ==
    [][\A s \in Sessions :
          /\ sess'[s].asked <= 1
          /\ ReadyOkWritten(sess'[s]) => sess'[s].asked = IF options.confirmTransfer THEN 1 ELSE 0
          /\ Asks(s) =>
                /\ options.confirmTransfer
                /\ sess[s].admitted /\ sess[s].header.type = "header" /\ sess[s].header.valid
                /\ sess[s].out = <<>>
          /\ sess'[s].pc = "confirm" =>
                sess'[s].out = <<>> /\ sess'[s].stream = "none" /\ sess'[s].received = 0
          /\ Settles(s) /\ sess'[s].refused # <<>> =>
                LET decision == sess'[s].refused[1]
                    message == IF ~decision.isBoolean /\ decision.message # ""
                               THEN decision.message
                               ELSE "receiver rejected transfer"
                IN /\ ~decision.accept
                   /\ sess'[s].message = message
                   /\ sess'[s].out = IF sess[s].writable
                                     THEN <<ReadyMessage(FALSE, 0, message, NoPath)>>
                                     ELSE <<>>
                   /\ sess'[s].pc = "closed"
                   /\ sess'[s].stream = "none" /\ sess'[s].received = 0
                   /\ sess'[s].buffer = <<>>
                   /\ dir'[Resolved(dir, sess[s].tempPath)] = dir[Resolved(dir, sess[s].tempPath)]
          /\ Settles(s) /\ sess'[s].pc = "closed" /\ ~sess[s].error /\ sess'[s].refused = <<>> =>
                sess'[s].message = "confirm failed"
          /\ sess[s].pc = "mkdir" /\ sess'[s].pc \notin {"mkdir", "closed"} /\ ~options.confirmTransfer =>
                sess'[s].pc = "stat" /\ sess'[s].asked = 0]_vars

\* C20: the hook refused one session with its own message and another with
\* a plain false.
C20_RefusedWithAndWithoutMessage ==
    /\ \E s \in Sessions :
          /\ sess[s].refused = <<Decision(FALSE, FALSE, "busy")>>
          /\ sess[s].out = <<ReadyMessage(FALSE, 0, "busy", NoPath)>>
    /\ \E s \in Sessions :
          /\ sess[s].refused = <<Decision(TRUE, FALSE, "")>>
          /\ sess[s].out = <<ReadyMessage(FALSE, 0, "receiver rejected transfer", NoPath)>>

\* The sender is inside verifyTlsPeer, between the handshake and the header.
Verifying == snd.pc \in {"verify", "knownHosts", "save"}
\* The sender pins a well-formed fingerprint and the server presented a
\* certificate.
Pins == /\ snd.tls.enabled
        /\ snd.tls.fingerprint.form \in {"lower", "colons"}
        /\ snd.peerCert # NoCert
\* The pinned fingerprint spells the SHA-256 of the server's certificate.
PinMatches == snd.tls.fingerprint.digest = sha256(snd.peerCert)
\* The sender writes the header of the current entry in this step.
WritesHeader ==
    /\ snd'.headers = Append(snd.headers, sess'[snd.session].line)
    /\ sess'[snd.session].hasLine /\ ~sess[snd.session].hasLine
    /\ snd'.pc = "ready"
\* The receiver's side of the sender's connection has seen no header and no
\* payload.
NothingSent ==
    /\ ~sess[snd.session].hasLine
    /\ sess[snd.session].header = NoHeader
    /\ sess[snd.session].buffer = <<>>
    /\ snd.wire = <<>>
    /\ Len(snd.headers) = snd.index - 1

\* C21: on a TLS send the sender writes nothing between the handshake and
\* the end of the verification; verifying a well-formed pinned fingerprint
\* against the certificate the server presented, a fingerprint other than
\* the certificate's SHA-256 fails the send with "TLS fingerprint mismatch"
\* and no header is ever written on that connection, while the certificate's
\* SHA-256 (in lower case, or in upper case with colons) makes the sender
\* write the header; and, the receiver and its disk working, the entry then
\* gets its ack{ok:true}.
C21_PinVerifiedBeforeHeader ==
    /\ [](Verifying \/ snd.error = "TLS fingerprint mismatch" => NothingSent)
    /\ [][/\ snd.tls.enabled /\ snd'.headers # snd.headers => Verifying
          /\ snd.pc = "verify" /\ snd'.pc # "verify" /\ Pins =>
                IF PinMatches THEN WritesHeader
                ELSE /\ snd'.pc = "failed"
                     /\ snd'.error = "TLS fingerprint mismatch"
                     /\ snd'.headers = snd.headers
                     /\ sess'[snd.session].destroyed
          /\ snd.pc = "failed" => snd' = snd]_vars
    /\ \A i \in 1..MaxEntries :
          (snd.pc = "ready" /\ snd.index = i /\ Pins) ~>
             (Len(snd.results) >= i /\ snd.results[i].type = "ack" /\ snd.results[i].ok)

\* C21: the first entry was sent with a matching pin written in upper case
\* with colons and was acknowledged; the second met another certificate and
\* failed with the mismatch.
C21_PinnedThenMismatch ==
    /\ snd.tls.fingerprint.form = "colons"
    /\ Len(snd.results) = 1 /\ snd.results[1].ok
    /\ snd.index = 2
    /\ snd.pc = "failed" /\ snd.error = "TLS fingerprint mismatch"
    /\ snd.peerCert # NoCert
    /\ sess[snd.session].pc = "closed"

\* The send is in TOFU mode: trust on first use and no pinned fingerprint.
TofuMode == snd.tls.enabled /\ snd.tls.trustOnFirstUse /\ snd.tls.fingerprint = NoFingerprint
\* The endpoint of the send, host_lower:port, and the SHA-256 of the
\* certificate the server presented, as the known-hosts file spells it.
Endpoint == toLowerCase(snd.tls.host)
PeerFingerprint == Fingerprint(sha256(snd.peerCert), "lower")
\* The fingerprint the known-hosts file holds for endpoint e (NoSha: none).
Known(e) == snd.knownHosts[e].digest
\* Every entry of the known-hosts file can be read.
Readable == \A e \in Endpoints : snd.knownHosts[e].form # "malformed"
\* The known-hosts file as a reader finds it is the same after the step.
SameEntries == \A e \in Endpoints : Known(e)' = Known(e)

\* C22: in TOFU mode, with a readable known-hosts file, the verification of
\* an endpoint host_lower:port without an entry writes the file once, adding
\* exactly the entry endpoint -> SHA-256 of the server's certificate, and
\* goes on to the header; the verification of an endpoint with an entry goes
\* on to the header when the fingerprint is equal and fails with "TLS
\* fingerprint changed" when it differs, without writing in either case; and
\* whatever the sender does, the file changes only by such a first entry, so
\* that no entry is ever overwritten or removed.
C22_TrustOnFirstUse ==
    [][/\ snd.pc = "knownHosts" /\ snd'.pc # "knownHosts" /\ Readable =>
             /\ TofuMode /\ snd'.reads = snd.reads + 1 /\ snd'.knownHosts = snd.knownHosts
             /\ IF Known(Endpoint) = NoSha THEN snd'.pc = "save" /\ snd'.headers = snd.headers
                ELSE IF Known(Endpoint) = sha256(snd.peerCert) THEN WritesHeader
                ELSE snd'.pc = "failed" /\ snd'.error = "TLS fingerprint changed"
       /\ snd.pc = "save" /\ snd'.pc # "save" =>
             /\ Known(Endpoint) = NoSha
             /\ snd'.knownHosts[Endpoint] = PeerFingerprint
             /\ \A e \in Endpoints \ {Endpoint} : Known(e)' = Known(e)
             /\ snd'.writes = snd.writes + 1
             /\ WritesHeader
       /\ snd.pc # "save" => snd'.knownHosts = snd.knownHosts /\ snd'.writes = snd.writes
       /\ \A e \in Endpoints : Known(e) # NoSha => Known(e)' = Known(e)]_vars

\* C22: the first send to Peer.Local stored the certificate's fingerprint
\* under peer.local beside the entry of another endpoint; the second met
\* another certificate and failed, and the file still holds both entries.
C22_StoredThenChanged ==
    /\ TofuMode /\ snd.tls.host = "Peer.Local"
    /\ snd.writes = 1 /\ snd.reads = 2
    /\ Len(snd.results) = 1
    /\ snd.pc = "failed" /\ snd.error = "TLS fingerprint changed"
    /\ Known("peer.local") # NoSha /\ Known("peer.local") # sha256(snd.peerCert)
    /\ Known("other.local") # NoSha
    /\ Known("Peer.Local") = NoSha

\* The send request supplies both an expected fingerprint and trust on first
\* use, to the send command or to sendEntries.
SuppliesBoth ==
    \/ snd.opts.tlsFingerprint # NoFingerprint /\ snd.opts.tlsTofu
    \/ snd.tls.fingerprint # NoFingerprint /\ snd.tls.trustOnFirstUse

\* The errors of the send command's option checks.
ConfigurationErrors ==
    {"--tls-fingerprint requires --tls", "--tls-tofu requires --tls",
     "--tls-fingerprint and --tls-tofu are mutually exclusive"}

\* C30: a send request that supplies both an expected fingerprint and trust
\* on first use never opens a connection and never reads or writes the
\* known-hosts file; once looked at it has failed with a configuration error.
C30_PinAndTofuRejected ==
    SuppliesBoth =>
        /\ \A s \in Sessions : sess[s].pc = "idle"
        /\ snd.reads = 0 /\ snd.writes = 0
        /\ snd.pc \in {"cli", "next", "failed"}
        /\ snd.pc = "failed" => snd.error \in ConfigurationErrors

\* C30: sendEntries was called with both; it checked the pin, left the
\* known-hosts file alone and sent the batch.
C30_BothSuppliedAndSent ==
    /\ SuppliesBoth
    /\ snd.pc = "done" /\ Len(snd.results) = MaxEntries
    /\ snd.reads = 0 /\ snd.writes = 0
    /\ Known(Endpoint) = NoSha

\* C23: a header is parsed only if fewer than HEADER_MAX_BYTES bytes, its
\* newline included, were received for its line; a session whose header line
\* reached HEADER_MAX_BYTES bytes or more, in whatever "data" events, ends
\* failed with "header too large", its header neither parsed nor admitted.
C23_ReaderBounded ==
    \A s \in Sessions :
        /\ sess[s].header # NoHeader => sess[s].lineBytes < HeaderMaxBytes
        /\ sess[s].pc = "closed" /\ sess[s].lineBytes >= HeaderMaxBytes =>
              /\ sess[s].message = "header too large"
              /\ sess[s].header = NoHeader /\ ~sess[s].admitted

\* C23: a header line of twice HEADER_MAX_BYTES bytes was parsed, admitted
\* and its file saved, and a shorter one failed as too large.
C23_LongLineAdmitted ==
    /\ \E s \in Sessions :
          /\ sess[s].lineBytes = 2 * HeaderMaxBytes
          /\ sess[s].admitted /\ AckedOk(s)
    /\ \E s \in Sessions :
          /\ sess[s].lineBytes = HeaderMaxBytes + 1
          /\ sess[s].message = "header too large"

\* The stop handle has been called.
Stopped == server.stop # "none"
\* The stop handle is called in this step.
Stops == ~Stopped /\ Stopped'

\* C24: once the stop handle is called the TTL timer never fires and no TTL
\* rotation is notified; the call destroys the socket of every session
\* accepted and not yet closed; no connection is accepted afterwards; and in
\* the end the stop call completes and every session has ended.
C24_StopIsFinal ==
    /\ [][/\ Stopped => ~TtlFires /\ (notified' # notified => notified'.reason # "ttl")
          /\ Stops => \A s \in Sessions : sess[s].pc # "idle" => sess'[s].destroyed
          /\ Stopped => \A s \in Sessions : sess[s].pc = "idle" => sess'[s].pc = "idle"]_vars
    /\ Stopped ~> (server.stop = "done" /\ \A s \in Sessions : sess[s].pc \in {"idle", "closed"})

\* C24: a connection accepted after the stop handle was called had its file
\* saved and acknowledged, and the stop call has completed.
C24_AcceptedAfterStop ==
    /\ server.stop = "done" /\ server.late = 1
    /\ \E s \in Sessions : AckedOk(s) /\ ~sess[s].destroyed /\ pathExists(dir, sess[s].promoted)

\* The sessions whose handler has started and not returned.
Handled == {s \in Sessions : sess[s].pc \notin {"idle", "closed"}}
\* Session s has ended for its peer: its terminal frame is written, or its
\* socket is destroyed.
Ended(s) == sess[s].failed \/ sess[s].destroyed \/ AckedOk(s)

\* C25: activeTransfers is never negative and counts the sessions whose
\* handler has started (the increment is the handler's first statement,
\* before the header is read) and not returned; and a session that has ended,
\* by an ack, a failure frame, a thrown error or a destroyed socket, has its
\* handler return in the end, so that the counter is given back.
C25_ActiveTransfersCounts ==
    /\ [](/\ pairingState.activeTransfers >= 0
          /\ pairingState.activeTransfers = Cardinality(Handled))
    /\ \A s \in Sessions : Ended(s) ~> sess[s].pc = "closed"

\* C25: a session failed from its file stream's error handler, its failure
\* frame is written and its socket destroyed, and its handler waits for a
\* "drain" that never comes: the counter stays at 1.
C25_CounterNeverGivenBack ==
    \E s \in Sessions :
        /\ sess[s].pc = "hung" /\ sess[s].failed /\ sess[s].destroyed
        /\ sess[s].message = "cannot write target file"
        /\ Len(sess[s].out) = 2 /\ IsFailure(sess[s].out[2])
        /\ snd.pc = "failed"
        /\ pairingState.activeTransfers = 1

\* A dotted quad inside 10.0.0.0/8, 172.16.0.0/12 or 192.168.0.0/16.
PrivateIpv4(address) ==
    /\ Len(address) = 4
    /\ \A i \in 1..4 : address[i] \in 0..255
    /\ \/ address[1] = 10
       \/ address[1] = 172 /\ address[2] \in 16..31
       \/ address[1] = 192 /\ address[2] = 168
ReturnedDevices == {discovery.returned[i] : i \in 1..Len(discovery.returned)}

\* C26: every device a discoverDevices call without options returns has a
\* private IPv4 host (10/8, 172.16/12 or 192.168/16, hence neither loopback
\* nor link-local); its addresses are private IPv4s, none twice; no two
\* returned devices have the same host and port; and neither the host nor
\* any address of a returned device is an address of a local interface.
C26_DiscoveredDevicesAreLanPeers ==
    discovery.pc = "returned" =>
        /\ \A d \in ReturnedDevices :
              /\ PrivateIpv4(d.host)
              /\ d.host[1] # 127 /\ ~(d.host[1] = 169 /\ d.host[2] = 254)
              /\ \A i \in 1..Len(d.addresses) :
                    /\ PrivateIpv4(d.addresses[i])
                    /\ \A j \in 1..Len(d.addresses) : d.addresses[i] = d.addresses[j] => i = j
              /\ d.host \notin discovery.locals
              /\ \A i \in 1..Len(d.addresses) : d.addresses[i] \notin discovery.locals
        /\ \A i, j \in 1..Len(discovery.returned) :
              HostPort(discovery.returned[i]) = HostPort(discovery.returned[j]) => i = j

\* Two transports' findings for one host and port come back as one device
\* with both addresses, on a system that has an interface of its own.
C26_MergedAndReturned ==
    /\ discovery.pc = "returned"
    /\ Len(discovery.mdns) = 1 /\ Len(discovery.udp) = 1
    /\ Len(discovery.returned) = 1
    /\ Len(discovery.returned[1].addresses) = 2
    /\ discovery.locals # {}

\* The temp file of session s: its bytes, <<>> when there is none.
TempBytes(s) == IF dir[TempOf(s)] > 0 THEN Content(TempOf(s)) ELSE <<>>
\* Session s answers ready{ok:true} with the offset the temp file and the
\* header determine.
DecidesOffset(s) ==
    LET temp == TempBytes(s)
        header == sess[s].header
        offset == ReadyOf(s)'.offset
    IN /\ temp = <<>> => offset = 0
       /\ Len(temp) > header.fileSize
          => /\ offset = 0
             /\ sess'[s].received = 0
             /\ dir'[TempOf(s)] > 0 /\ files'[dir'[TempOf(s)]] = <<>>
       /\ temp # <<>> /\ Len(temp) = header.fileSize
          => offset = IF sha256(temp) = header.sha256 THEN header.fileSize ELSE 0
       /\ temp # <<>> /\ Len(temp) < header.fileSize
          => /\ offset = Len(temp)
             /\ sess'[s].hasher = temp
             /\ sess'[s].received = Len(temp)
             /\ sess'[s].stream = "open" /\ sess'[s].fd = dir[TempOf(s)]
             /\ files'[dir[TempOf(s)]] = temp
       /\ offset \in 0..header.fileSize

\* C27: the offset of ready{ok:true} is 0 for a missing or empty temp file;
\* 0 for a temp file larger than fileSize, which is truncated and rewritten
\* from the start; fileSize or 0 for a temp file of size fileSize, as its
\* SHA-256 equals header.sha256 or not; the temp file's size when it is
\* smaller than fileSize, the hasher then holding exactly its bytes and the
\* payload written from that position on; always within 0..fileSize, and
\* ack.resumedFrom is that offset.
C27_ResumeOffsetDecision ==
    [][\A s \in Sessions :
          /\ WritesReadyOk(s) => DecidesOffset(s)
          /\ EmitsAckOk(s) => OkAck(s)'.resumedFrom = ReadyOf(s).offset]_vars

\* C27: the empty file was announced while a temp file of one byte or more
\* lay at its temp path; the receiver answered ready with offset 0 and ack
\* with ok, and the file it saved holds the old bytes.
C27_StaleTempSaved ==
    \E s \in Sessions :
        /\ sess[s].pc = "closed" /\ EmptyFile(s) /\ AckedOk(s)
        /\ ReadyOf(s).offset = 0 /\ OkAck(s).receivedBytes = 0
        /\ pathExists(dir, sess[s].promoted)
        /\ Content(sess[s].promoted) # <<>>

\* The first line the sender's connection has brought, and whether it is a
\* ready{ok:true} with an offset inside the file.
FirstLine == sess[snd.session].out[1]
SourceSize == Len(Entry(snd.index).content)
ValidReady(frame, size) ==
    frame.type = "ready" /\ frame.ok /\ frame.offset >= 0 /\ frame.offset <= size
\* The sender reads the first line of its connection in this step.
ReadsReady == snd.pc = "ready" /\ snd' # snd /\ Len(sess[snd.session].out) >= 1
\* The sender half-closes its socket in this step.
HalfCloses == snd.pc \in {"ready", "stream"} /\ snd'.pc = "ack"

\* C28: payload bytes are on the wire only after a ready{ok:true} with
\* 0 <= offset <= fileSize was read; reading any other first line (offset
\* out of range, ok = false, another type) fails the send with no payload
\* byte sent and the socket destroyed; after a valid ready the sender has
\* sent exactly the source's bytes from offset on when it half-closes.
C28_PayloadOnlyAfterValidReady ==
    /\ [](snd.wire # <<>> => /\ Len(sess[snd.session].out) >= 1
                             /\ ValidReady(FirstLine, Len(lan.entries[Len(snd.headers)])))
    /\ [][ReadsReady /\ ~ValidReady(FirstLine, SourceSize)
             => /\ snd'.pc = "failed" /\ snd'.error # ""
                /\ snd'.wire = <<>>
                /\ sess'[snd.session].destroyed]_vars
    /\ [][HalfCloses
             => /\ ValidReady(FirstLine, SourceSize)
                /\ snd'.wire = SubSeq(Entry(snd.index).content, FirstLine.offset + 1, SourceSize)
                /\ Len(snd'.wire) = SourceSize - FirstLine.offset
                /\ sess'[snd.session].ended \/ sess'[snd.session].destroyed
                   \/ sess'[snd.session].pc = "closed"]_vars

\* C28: a server answered ready{ok:true} with an offset beyond the file, and
\* the send failed with nothing sent and the socket destroyed.
C28_OffsetBeyondFileRefused ==
    /\ snd.session \in Sessions
    /\ sess[snd.session].pc = "elsewhere"
    /\ Len(sess[snd.session].out) >= 1
    /\ FirstLine.type = "ready" /\ FirstLine.ok /\ FirstLine.offset > SourceSize
    /\ snd.pc = "failed" /\ snd.error = "invalid resume offset"
    /\ snd.wire = <<>> /\ sess[snd.session].destroyed

\* The failure frames the sender's connection has been sent.
FailureFramesSent ==
    IF snd.session \in Sessions
    THEN {sess[snd.session].out[i] : i \in {j \in 1..Len(sess[snd.session].out) :
                                               IsFailure(sess[snd.session].out[j])}}
    ELSE {}

\* C29: when the receiver has failed the sender's session with a failure
\* frame carrying message m and the send has failed, the send's error is m
\* ('receiver rejected transfer' for a frame without message), whatever the
\* order of the receiver's write and destroy and the sender's writes and
\* reads.
C29_SendFailsWithReceiversMessage ==
    [](snd.pc = "failed" => \A frame \in FailureFramesSent : snd.error = MessageOf(frame))

\* C29: the receiver answered ack{ok:false, message: 'cannot write target
\* file'} while the sender was still writing payload, and the send failed
\* with the socket's error.
C29_FailedWithSocketError ==
    /\ snd.pc = "failed" /\ snd.error = "socket error"
    /\ AckFailMessage("cannot write target file") \in FailureFramesSent

\* The sessions whose header has been read and validated and whose handler
\* has not returned.
HeaderValidated == {s \in Sessions : sess[s].pc \notin {"idle", "closed"} /\ sess[s].admitted}
\* Session s is accepted, and its handler still waits for the header line.
AwaitsHeader(s) == sess[s].pc = "header"

\* C31: activeTransfers counts only sessions whose header has been read and
\* validated: the counter grows only in a step that validates a header, a
\* connection that still waits for its header is not counted, and a TTL tick
\* is skipped only while a session with a validated header is in progress.
C31_CountedAfterHeader ==
    /\ [](pairingState.activeTransfers <= Cardinality(HeaderValidated))
    /\ [][/\ pairingState'.activeTransfers > pairingState.activeTransfers
             => \E s \in Sessions : ~sess[s].admitted /\ sess'[s].admitted
          /\ TtlFires /\ ~TtlRotates => HeaderValidated # {}]_vars

\* C31: the TTL timer fired at this instant without rotating, and the only
\* connection there is has not sent its header yet.
C31_TickSkippedBeforeHeader ==
    /\ now >= TtlMs
    /\ ttlTimerDue = now + TtlMs
    /\ lastTtl.at # now
    /\ pairingState.activeTransfers = 1
    /\ \E s \in Sessions :
          /\ AwaitsHeader(s) /\ ~sess[s].hasLine /\ ~sess[s].peerHeader
          /\ \A q \in Sessions \ {s} : sess[q].pc = "idle"

\* The bytes of its peer's stream that session s has been handed so far, and
\* the bytes the handler has passed to writePayload.
Arrived(s) == SubSeq(sess[s].inbound, 1, sess[s].arrived)
Delivered(s) == subarray(sess[s].hasher, sess[s].resumedFrom)
\* Session s reads a raw stream and has not failed.
Reading(s) ==
    /\ sess[s].inbound # <<>>
    /\ sess[s].pc \notin {"idle", "closed", "hung"}
    /\ ~sess[s].failed

\* C32: for every split of a session's inbound stream into chunks, until the
\* first newline has arrived the reader holds every byte handed to it; from
\* then on the header is what the bytes before the first newline decode to,
\* and the bytes passed on as payload followed by the bytes still buffered
\* are exactly the bytes that arrived after that newline, in order; the
\* payload bytes are counted once and written to the temp file unchanged.
C32_StreamConsumedInOrder ==
    \A s \in Sessions :
        Reading(s) =>
            LET r == sess[s]
                newlineIndex == indexOf(Arrived(s), LineFeed)
            IN IF r.pc = "header" /\ ~r.hasLine
               THEN r.buffer = Arrived(s) /\ newlineIndex < 0
               ELSE /\ newlineIndex >= 0
                    /\ (IF r.hasLine THEN r.line ELSE r.header)
                          = decodeJsonLine(r, SubSeq(Arrived(s), 1, newlineIndex))
                    /\ Delivered(s) \o r.buffer = subarray(Arrived(s), newlineIndex + 1)
                    /\ r.received = r.resumedFrom + Len(Delivered(s))
                    /\ r.stream = "open" => subarray(files[r.fd], r.resumedFrom) = Delivered(s)

\* C32: a stream whose payload starts with a newline byte has arrived, in
\* chunks cut anywhere, and both payload bytes were passed on in order and
\* written to the temp file.
C32_PayloadBesideHeader ==
    \E s \in Sessions :
        /\ Reading(s) /\ sess[s].pc = "flush"
        /\ sess[s].inbound = HeaderText \o <<LineFeed, LineFeed, 1>>
        /\ Delivered(s) = <<LineFeed, 1>>
        /\ sess[s].resumedFrom = 0
        /\ files[sess[s].fd] = <<LineFeed, 1>>

\* A terminal frame: ready{ok:false}, ack{ok:false} or ack{ok:true}.
Terminal(frame) == IsFailure(frame) \/ frame.type = "ack"
TerminalFrames(r) == {i \in 1..Len(r.out) : Terminal(r.out[i])}

\* C33: a receiver session writes at most one terminal frame, the frame is
\* the last one it writes and closes the write side; a failure frame is only
\* written under the failed flag of fail(), and ack{ok:true} only by a session
\* that never failed, also when the file stream's error callback and the
\* handler itself fail one after the other.
C33_OneTerminalFrame ==
    \A s \in Sessions :
        LET r == sess[s]
        IN /\ Cardinality(TerminalFrames(r)) <= 1
           /\ \A i \in TerminalFrames(r) :
                 /\ i = Len(r.out)
                 /\ ~r.writable
                 /\ IsFailure(r.out[i]) <=> r.failed

\* C33: the file stream's error callback failed a session that was
\* receiving, its frame was written, and the handler then failed by itself
\* and returned without a second frame.
C33_FailedTwice ==
    \E s \in Sessions :
        /\ sess[s].pc = "closed"
        /\ sess[s].failed
        /\ sess[s].message = "cannot write target file"
        /\ sess[s].out = <<ReadyMessage(TRUE, sess[s].resumedFrom, "", sess[s].targetPath),
                           AckFailMessage("cannot write target file")>>

\* Session s has its file stream open on its temp path.
WritesTemp(s) == sess[s].pc \in {"recv", "flush"} /\ sess[s].stream = "open"

\* C34: no two sessions that are writing at the same time write to the same
\* temp path, and the temp file of a writing session holds what that session
\* found there and wrote there.
C34_TempPathsDistinct ==
    \A s \in Sessions :
        WritesTemp(s) =>
            /\ \A q \in Sessions \ {s} :
                  WritesTemp(q) =>
                      /\ Resolved(dir, sess[s].tempPath) # Resolved(dir, sess[q].tempPath)
                      /\ sess[s].fd # sess[q].fd
            /\ files[sess[s].fd] = sess[s].hasher

\* C34: two sessions hold open streams on one temp file, and one of them
\* has written a byte there that the other one's file now holds.
C34_TwoWritersOneTemp ==
    \E s, q \in Sessions :
        /\ s # q
        /\ WritesTemp(s) /\ WritesTemp(q)
        /\ sess[s].tempPath = sess[q].tempPath
        /\ sess[s].fd = sess[q].fd
        /\ sess[s].received > 0
        /\ sess[q].received = 0
        /\ files[sess[q].fd] # <<>>

\* The receiver rotates its pair code after each successful transfer and by
\* nothing else.
RotatesPerTransferOnly ==
    /\ options.rotatePairCodePerTransfer /\ options.generatePairCode
    /\ ~options.pairCodeTtl

\* C35: under per-transfer rotation no two sessions that wrote ack{ok:true}
\* were admitted with the same pair code.
C35_OneTransferPerCode ==
    RotatesPerTransferOnly =>
        \A s, q \in Sessions :
            (s # q /\ AckedOk(s) /\ AckedOk(q) /\ sess[s].admittedWith # NoCode) =>
                sess[s].admittedWith # sess[q].admittedWith

\* C35: under per-transfer rotation two sessions were admitted with the same
\* code before either was acked; one has written ack{ok:true} and rotated the
\* code, the other is about to promote its file.
C35_TwoAdmittedWithOneCode ==
    /\ RotatesPerTransferOnly
    /\ \E s, q \in Sessions :
          /\ s # q
          /\ AckedOk(s) /\ sess[s].rotated = 1
          /\ sess[q].pc = "promote" /\ sess[q].admitted /\ ~sess[q].failed
          /\ sess[s].admittedWith # NoCode
          /\ sess[s].admittedWith = sess[q].admittedWith
          /\ pairingState.currentCode # sess[q].admittedWith

\* Session record r failed before ready for one of the reasons a header or
\* the confirmation hook gives: a wrong type, invalid fields, a pair code
\* mismatch, a rejected path, or the hook's refusal.
RejectedBeforeReady(r) ==
    /\ r.pc = "closed" /\ r.failed /\ r.phase = "before-ready"
    /\ \/ r.message \in {"protocol error: expected header", "invalid header fields",
                         "pair code mismatch"}
       \/ r.admitted /\ ~resolveOutputPath(r.header.relativePath).ok
       \/ r.refused # <<>>

\* C36: when the first session on an empty output directory has failed
\* before ready and no other connection was accepted, the output directory
\* is still empty: no directory, temp file or final file was created.
C36_NothingCreatedBeforeReady ==
    \A s \in Sessions :
        (RejectedBeforeReady(sess[s]) /\ \A q \in Sessions \ {s} : sess[q].pc = "idle") =>
            /\ dir = EmptyDisk.dir
            /\ files = EmptyDisk.files

\* C36: the confirmation hook refused the first transfer, of a file in a
\* directory, and that directory now exists in the output directory.
C36_DirectoryLeftByRefusal ==
    \E s \in Sessions :
        /\ RejectedBeforeReady(sess[s])
        /\ sess[s].refused # <<>>
        /\ \A q \in Sessions \ {s} : sess[q].pc = "idle"
        /\ sess[s].targetPath = Path(NestedPath, 0, NoTag)
        /\ dir[Path(SubSeq(NestedPath, 1, 1), 0, NoTag)] = Folder
        /\ sess[s].out = <<ReadyMessage(FALSE, 0, sess[s].message, NoPath)>>

\* startReceiver threw.
StartFailed == server.pc = "failed"

\* C37: when startReceiver has thrown, nothing it started is left running:
\* no advertisement, no TTL timer, no listener.
C37_FailedStartLeavesNothing ==
    StartFailed =>
        /\ ~server.published
        /\ ttlTimerDue = -1
        /\ ~server.listening

\* C37: startReceiver threw because the port was taken, and afterwards the
\* advertisement is still published and the TTL timer has rotated the pair
\* code and is due again.
C37_TimerRunsAfterFailedStart ==
    /\ StartFailed
    /\ server.error = "EADDRINUSE"
    /\ server.published
    /\ ~server.listening
    /\ ttlTimerDue > now
    /\ notified.count > 0 /\ notified.reason = "ttl"

\* The bytes of the file the caller sends again and again.
Resent == lan.entries[1]
\* Session s fails in this step with its payload incomplete.
EndsIncomplete(s) ==
    /\ ~sess[s].failed /\ sess'[s].failed
    /\ sess[s].phase = "receiving"
    /\ sess'[s].received < sess[s].header.fileSize
\* Session s fails in this step with "sha256 mismatch", its temp file removed.
EndsMismatched(s) == Returns(s) /\ sess'[s].message = "sha256 mismatch"
\* The bytes session s found in its temp file are not a prefix of the source.
FoundForeign(s) ==
    sess[s].found # <<>> /\ sess[s].found[1] # Prefix(Resent, Len(sess[s].found[1]))

\* C38: a session that ends with its payload incomplete keeps its temp file
\* and the bytes in it; a session that finds a
\* temp file smaller than fileSize resumes from its size; a session ends with
\* "sha256 mismatch" only when the bytes it found were not a prefix of the
\* source, and then its temp file is removed and the next attempt starts at
\* offset 0; and a sender that retries without further interruption gets
\* ack{ok:true} in the end, one session after an interrupted one and within
\* two sessions after any temp file an interrupted session may have left,
\* the saved file being the source.
C38_RetryCompletes ==
    /\ [][\A s \in Sessions :
            /\ EndsIncomplete(s) =>
                  /\ dir[TempOf(s)] > 0 /\ dir'[TempOf(s)] = dir[TempOf(s)]
                  /\ files'[dir[TempOf(s)]] = files[dir[TempOf(s)]]
            /\ (WritesReadyOk(s) /\ dir[TempOf(s)] > 0 /\ Len(TempBytes(s)) \in 1..(Len(Resent) - 1)) =>
                  ReadyOf(s)'.offset = Len(TempBytes(s))
            /\ EndsMismatched(s) =>
                  /\ FoundForeign(s)
                  /\ dir'[TempOf(s)] = 0
                  /\ \A q \in Sessions : sess[q].pc = "idle" => dir'[Resolved(dir', sess[s].tempPath)] = 0]_vars
    /\ [](\A s, q \in Sessions :
            (s < q /\ sess[s].message = "sha256 mismatch" /\ ReadyOkWritten(sess[q])) =>
                ReadyOf(q).offset = 0)
    /\ [](snd.error = "interrupted" => \A s \in Sessions : sess[s].message # "sha256 mismatch")
    /\ [](snd.pc = "done" =>
            \E s \in Sessions :
                /\ AckedOk(s) /\ pathExists(dir, sess[s].promoted)
                /\ Content(sess[s].promoted) = Resent)
    /\ <>(snd.pc = "done")

\* C38: the first retry resumed from a temp file whose byte was not the
\* source's, ended with "sha256 mismatch" and removed the temp file; the
\* second retry started at offset 0 and was acknowledged.
C38_SecondRetryAcked ==
    /\ snd.pc = "done"
    /\ sess[1].message = "sha256 mismatch" /\ sess[1].resumedFrom = 1
    /\ AckedOk(2)
    /\ ReadyOf(2).offset = 0
    /\ Content(sess[2].promoted) = Resent

\* Session record r has written a failure frame.
WroteFailure(r) == \E i \in 1..Len(r.out) : IsFailure(r.out[i])

\* C39: a session whose terminal frame is a failure frame has promoted
\* nothing, and a session that has promoted its file and returned has
\* written ack{ok:true}.
C39_PromotedIffAcked ==
    \A s \in Sessions :
        /\ WroteFailure(sess[s]) => sess[s].promoted = NoPath
        /\ (sess[s].pc = "closed" /\ sess[s].promoted # NoPath) => AckedOk(s)

\* C39: under per-transfer rotation a session promoted its file, the
\* rotation threw, and the session answered ack{ok:false}: the file is in the
\* output directory and the sender was told the transfer failed.
C39_PromotedThenFailed ==
    \E s \in Sessions :
        /\ sess[s].pc = "closed"
        /\ sess[s].promoted # NoPath /\ pathExists(dir, sess[s].promoted)
        /\ sess[s].phase = "done" /\ sess[s].failed
        /\ sess[s].message \in {"generator failed", "callback failed"}
        /\ Len(sess[s].out) = 2
        /\ sess[s].out[2] = AckFailMessage(sess[s].message)

\* Both verifications found no entry for their endpoint, entered it and
\* wrote the known-hosts file.
BothTrustedFirstUse ==
    /\ snd.other.pc = "done" /\ snd.other.wrote
    /\ snd.writes >= 1 /\ snd.pc \notin {"knownHosts", "save"}

\* C40: when two first-use verifications, for two different endpoints,
\* have both written the same known-hosts file, the file holds both entries.
C40_BothEntriesKept ==
    BothTrustedFirstUse =>
        /\ Known(Endpoint) # NoSha
        /\ Known("other.local") = sha256(OtherCert)

\* C40: both verifications read the file before either wrote it; the file
\* holds the entry of the one that wrote last and has lost the other's.
C40_EntryLost ==
    /\ BothTrustedFirstUse
    /\ snd.writes = 1 /\ snd.reads = 1
    /\ Known("other.local") = sha256(OtherCert)
    /\ Known(Endpoint) = NoSha

====
